---- MODULE Spec2Model ----
(***************************************************************************)
(* A model of the keccc compiler: scanner (scan.c), type system (types.c), *)
(* symbol table (symbol.c), expression parser (expr.c), statement and      *)
(* declaration parser (stmt.c, decl.c), generic code generator (gen.c) and *)
(* the register pools and size tables of the NASM x86-64 and AArch64       *)
(* backends.                                                               *)
(***************************************************************************)
EXTENDS Integers, Sequences, FiniteSets, TLC

(***************************************************************************)
(* Enumerations of defs.h                                                  *)
(***************************************************************************)
TARGET_NASM == 1
TARGET_AARCH64 == 2
Targets == {TARGET_NASM, TARGET_AARCH64}

P_NONE == 0
P_VOID == 1
P_CHAR == 2
P_INT == 3
P_LONG == 4
P_VOIDPTR == 5
P_CHARPTR == 6
P_INTPTR == 7
P_LONGPTR == 8

NOREG == -1
NOLABEL == 0

\* AST operations (A_*), structural types (S_*) and storage classes (C_*) are
\* written as strings holding the enumerator's name.

(***************************************************************************)
(* AST nodes (defs.h struct ASTnode, tree.c constructors).  A null pointer *)
(* is the record NULL; every other node carries all seven fields.          *)
(***************************************************************************)
NULL == [op |-> "NULL"]

IsNull(n) == n.op = "NULL"

makeASTNode(op, primitiveType, left, middle, right, intvalue) ==
    [op |-> op, primitiveType |-> primitiveType, isRvalue |-> FALSE,
     left |-> left, middle |-> middle, right |-> right, v |-> intvalue]

makeASTLeaf(op, primitiveType, intvalue) ==
    makeASTNode(op, primitiveType, NULL, NULL, NULL, intvalue)

makeASTUnary(op, primitiveType, left, intvalue) ==
    makeASTNode(op, primitiveType, left, NULL, NULL, intvalue)

(***************************************************************************)
(* types.c                                                                 *)
(***************************************************************************)
isIntegerType(primitiveType) == primitiveType \in {P_CHAR, P_INT, P_LONG}

isPointerType(primitiveType) ==
    primitiveType \in {P_VOIDPTR, P_CHARPTR, P_INTPTR, P_LONGPTR}

\* -1 stands for the logFatald of the default branch
primitiveTypeToPointerType(primitiveType) ==
    CASE primitiveType = P_VOID -> P_VOIDPTR
      [] primitiveType = P_CHAR -> P_CHARPTR
      [] primitiveType = P_INT -> P_INTPTR
      [] primitiveType = P_LONG -> P_LONGPTR
      [] OTHER -> -1

pointerToPrimitiveType(primitiveType) ==
    CASE primitiveType = P_VOIDPTR -> P_VOID
      [] primitiveType = P_CHARPTR -> P_CHAR
      [] primitiveType = P_INTPTR -> P_INT
      [] primitiveType = P_LONGPTR -> P_LONG
      [] OTHER -> -1

(***************************************************************************)
(* Backend size tables.  C index i is element i + 1 of the sequence.       *)
(***************************************************************************)
primitiveSizeInBytes == <<0, 0, 1, 4, 8, 8, 8, 8, 8>>

aarch64PrimitiveSizeInBytes == <<0, 0, 1, 4, 8, 8, 8, 8>>

SizeTable(target) ==
    IF target = TARGET_NASM THEN primitiveSizeInBytes
    ELSE aarch64PrimitiveSizeInBytes

\* The range guard shared by nasmGetPrimitiveTypeSize and
\* aarch64GetPrimitiveTypeSize: TRUE when the query exits with status 1.
SizeQueryRejected(type) == (type < P_NONE) \/ (type > P_LONGPTR)

\* TRUE when table[type] is an element of the array the backend declares.
SizeQueryInTable(target, type) == (type + 1) \in DOMAIN SizeTable(target)

\* codegenGetPrimitiveTypeSize for a query that stays inside the table.
codegenGetPrimitiveTypeSize(target, primitiveType) ==
    SizeTable(target)[primitiveType + 1]

\* modifyASTType with the "tree's size is too big" check lost
modifyASTType_narrowing(target, treeNode, rightType, operation) ==
    LET leftType == treeNode.primitiveType
        leftSize == codegenGetPrimitiveTypeSize(target, leftType)
        rightSize == codegenGetPrimitiveTypeSize(target, rightType)
        pointeeSize ==
            codegenGetPrimitiveTypeSize(target, pointerToPrimitiveType(rightType))
    IN  IF isIntegerType(leftType) /\ isIntegerType(rightType)
        THEN IF leftType = rightType THEN treeNode
             ELSE IF rightSize > leftSize
                  THEN makeASTUnary("A_WIDENTYPE", rightType, treeNode, 0)
             ELSE treeNode
        ELSE IF isPointerType(leftType) /\ operation = "A_NOTHING"
                /\ leftType = rightType
        THEN treeNode
        ELSE IF operation \in {"A_ADD", "A_SUBTRACT"}
                /\ isIntegerType(leftType) /\ isPointerType(rightType)
                /\ pointeeSize > 1
        THEN makeASTUnary("A_SCALETYPE", rightType, treeNode, pointeeSize)
        ELSE NULL

\* modifyASTType returning the narrower node itself instead of widening it
modifyASTType_nowiden(target, treeNode, rightType, operation) ==
    LET leftType == treeNode.primitiveType
        leftSize == codegenGetPrimitiveTypeSize(target, leftType)
        rightSize == codegenGetPrimitiveTypeSize(target, rightType)
        pointeeSize ==
            codegenGetPrimitiveTypeSize(target, pointerToPrimitiveType(rightType))
    IN  IF isIntegerType(leftType) /\ isIntegerType(rightType)
        THEN IF leftType = rightType THEN treeNode
             ELSE IF leftSize > rightSize THEN NULL
             ELSE IF rightSize > leftSize THEN treeNode
             ELSE NULL
        ELSE IF isPointerType(leftType) /\ operation = "A_NOTHING"
                /\ leftType = rightType
        THEN treeNode
        ELSE IF operation \in {"A_ADD", "A_SUBTRACT"}
                /\ isIntegerType(leftType) /\ isPointerType(rightType)
                /\ pointeeSize > 1
        THEN makeASTUnary("A_SCALETYPE", rightType, treeNode, pointeeSize)
        ELSE NULL

\* modifyASTType / coerceASTTypeForOp.  The three integer cases all return,
\* so the pointer rules are reached only when one side is not an integer.
modifyASTType(target, treeNode, rightType, operation) ==
    LET leftType == treeNode.primitiveType
        leftSize == codegenGetPrimitiveTypeSize(target, leftType)
        rightSize == codegenGetPrimitiveTypeSize(target, rightType)
        pointeeSize ==
            codegenGetPrimitiveTypeSize(target, pointerToPrimitiveType(rightType))
    IN  IF isIntegerType(leftType) /\ isIntegerType(rightType)
        THEN IF leftType = rightType THEN treeNode
             ELSE IF leftSize > rightSize THEN NULL
             ELSE IF rightSize > leftSize
                  THEN makeASTUnary("A_WIDENTYPE", rightType, treeNode, 0)
             ELSE NULL
        ELSE IF isPointerType(leftType) /\ operation = "A_NOTHING"
                /\ leftType = rightType
        THEN treeNode
        ELSE IF operation \in {"A_ADD", "A_SUBTRACT"}
                /\ isIntegerType(leftType) /\ isPointerType(rightType)
                /\ pointeeSize > 1
        THEN makeASTUnary("A_SCALETYPE", rightType, treeNode, pointeeSize)
        ELSE NULL

coerceASTTypeForOp(target, node, contextType, op) ==
    modifyASTType(target, node, contextType, op)

(***************************************************************************)
(* State                                                                   *)
(***************************************************************************)
VARIABLES
    CurrentTarget,      \* data.h: the selected backend (CG)
    exitStatus,         \* process exit status; Running until the process ends
    errorReported,      \* a diagnostic has been written to stderr
    typesCall,          \* types.c / size query: which call is made
    typesPc,            \* "ready" before the call, "returned" after it
    coerceNode,         \* modifyASTType: treeNode
    coerceContext,      \* modifyASTType: rightType
    coerceOp,           \* modifyASTType: operation
    coerceResult,       \* modifyASTType: the returned node
    sizeQueryType,      \* GetPrimitiveTypeSize: type
    sizeQueryResult,    \* GetPrimitiveTypeSize: the returned size
    sizeQueryInTable,   \* the read stayed inside the size table
    SymbolTable,        \* data.h: SymbolTable[NSYMBOLS]
    NextGlobalSymbolIndex, \* data.h: next free global slot
    NextLocalSymbolIndex,  \* data.h: next free local slot
    localOffset,        \* backend: bytes of locals allocated so far
    declaredGlobals,    \* slots handed to codegenDeclareGlobalSymbol, in order
    symCall,            \* the last symbol-table call: its arguments and result
    insertedAt,         \* history: the slot each name was inserted at, per scope
    exprInput,          \* expr.c: the token stream of the expression
    exprPc,             \* "ready" before binexpr(0), then how it ended
    exprTree,           \* the tree binexpr(0) returned
    exprAssignRejected, \* an assignment's coercion returned NULL
    genPc,              \* main: "start", "declarations", "done" or "exited"
    freeRegisters,      \* cgn_regs.c: the backend's register pool
    labelId,            \* gen.c: static int id of codegenGetLabelNumber
    CurrentFunctionSymbolID, \* data.h: symbol slot of the function being parsed
    functionsCompiled,  \* function definitions read so far
    lastFunction,       \* what was observed while the last function was generated
    regCall,            \* history: the last call of a register pool function
    labelsReturned,     \* history: every value codegenGetLabelNumber returned
    Infile,             \* data.h: the characters of the input not yet read
    Putback,            \* data.h: the character put back, "NUL" (0) for none
    Line,               \* data.h: current line number
    Text,               \* data.h: the last identifier scanned
    Token,              \* data.h: the last token scanned
    RejectToken,        \* scan.c: static pointer to the rejected token, or "NULL"
    scanPc,             \* "scanning", "ended" once scan returned false, "exited"
    scanCall,           \* history: the scanner function called last, rejectToken calls
    scanLog,            \* history: what every call of scan delivered
    genCall             \* history: the generator call observed and what it wrote

sharedVars == <<CurrentTarget, exitStatus, errorReported>>

typeVars == <<typesCall, typesPc, coerceNode, coerceContext, coerceOp,
              coerceResult, sizeQueryType, sizeQueryResult, sizeQueryInTable>>

symVars == <<SymbolTable, NextGlobalSymbolIndex, NextLocalSymbolIndex,
             localOffset, declaredGlobals, symCall, insertedAt>>

exprVars == <<exprInput, exprPc, exprTree, exprAssignRejected>>

genVars == <<genPc, freeRegisters, labelId, CurrentFunctionSymbolID,
             functionsCompiled, lastFunction, regCall, labelsReturned>>

scanVars == <<Infile, Putback, Line, Text, Token, RejectToken, scanPc, scanCall,
              scanLog>>

vars == <<sharedVars, typeVars, symVars, exprVars, genVars, scanVars, genCall>>

Running == 0 - 1

\* Largest value an out-of-bounds read of a size table is allowed to yield
MaxGarbage == 9

GarbageInts == -1..MaxGarbage

ExprTypes == P_VOID..P_LONGPTR

BinaryOps == {"A_LOGICALOR", "A_LOGICALAND", "A_BITWISEOR", "A_BITWISEXOR",
              "A_BITWISEAND", "A_EQ", "A_NE", "A_LT", "A_GT", "A_LE", "A_GE", "A_LSHIFT",
              "A_RSHIFT", "A_ADD", "A_SUBTRACT", "A_MULTIPLY", "A_DIVIDE"}

CoerceOps == {"A_NOTHING"} \cup BinaryOps

CoerceNodes ==
    {[makeASTLeaf("A_IDENTIFIER", t, 0) EXCEPT !.isRvalue = r] :
        t \in ExprTypes, r \in BOOLEAN}

SizeQueryTypes == (P_NONE - 1)..(P_LONGPTR + 1)

TypesIdle ==
    /\ typesCall = "none"
    /\ typesPc = "ready"
    /\ coerceNode = NULL
    /\ coerceContext = P_NONE
    /\ coerceOp = "A_NOTHING"
    /\ coerceResult = NULL
    /\ sizeQueryType = P_NONE
    /\ sizeQueryResult = 0
    /\ sizeQueryInTable = TRUE

(***************************************************************************)
(* symbol.c: one table, globals growing up from slot 0 and locals growing  *)
(* down from slot NSYMBOLS - 1.  NSYMBOLS is 1024 in defs.h; the model     *)
(* keeps the code and shrinks the capacity.                                *)
(***************************************************************************)
NSYMBOLS == 5

\* Number of distinct identifiers the input may declare
MaxNames == 3

Names == 1..MaxNames

NoEntry == [name |-> 0, primitiveType |-> P_NONE, structuralType |-> "S_VARIABLE",
            class |-> "C_GLOBAL", endLabel |-> 0, size |-> 0, offset |-> 0]

NoCall == [fn |-> "none", name |-> 0, structuralType |-> "S_VARIABLE",
           present |-> FALSE, full |-> FALSE, result |-> -1]

GlobalSlots == 0..(NextGlobalSymbolIndex - 1)

LocalSlots == (NextLocalSymbolIndex + 1)..(NSYMBOLS - 1)

\* No slot is left: the two regions meet (or already overlap)
TableFull == NextGlobalSymbolIndex > NextLocalSymbolIndex

SymIdle ==
    /\ SymbolTable = [i \in 0..(NSYMBOLS - 1) |-> NoEntry]
    /\ NextGlobalSymbolIndex = 0
    /\ NextLocalSymbolIndex = NSYMBOLS - 1
    /\ localOffset = 0
    /\ declaredGlobals = <<>>
    /\ symCall = NoCall
    /\ insertedAt = {}

\* for (i = 0; i < NextGlobalSymbolIndex; i++) ... return i; return -1
findGlobalSymbol(s) ==
    LET hits == {i \in GlobalSlots : SymbolTable[i].name = s}
    IN  IF hits = {} THEN -1 ELSE CHOOSE i \in hits : \A j \in hits : i <= j

\* for (i = NextLocalSymbolIndex + 1; i < NSYMBOLS; i++) ... return i; return -1
findLocalSymbol(s) ==
    LET hits == {i \in LocalSlots : SymbolTable[i].name = s}
    IN  IF hits = {} THEN -1 ELSE CHOOSE i \in hits : \A j \in hits : i <= j

findSymbol(s) ==
    IF findLocalSymbol(s) # -1 THEN findLocalSymbol(s) ELSE findGlobalSymbol(s)

\* getNewGlobalSymbolIndex: TRUE when "Too many global symbols" is raised
GlobalIndexFatal == NextGlobalSymbolIndex >= NSYMBOLS

\* getNewLocalSymbolIndex: TRUE when "Too many local symbols" is raised
LocalIndexFatal == NextLocalSymbolIndex < NextGlobalSymbolIndex

\* aarch64GetLocalOffset: localOffset += (size > 4) ? size : 4
LocalOffsetStep(primitiveType) ==
    LET size == codegenGetPrimitiveTypeSize(CurrentTarget, primitiveType)
    IN  IF size > 4 THEN size ELSE 4

updateSymbolTable(slotIndex, name, primitiveType, structuralType, classType, endLabel, size, offsetPosition) ==
    [SymbolTable EXCEPT ![slotIndex] =
        [name |-> name, primitiveType |-> primitiveType,
         structuralType |-> structuralType, class |-> classType,
         endLabel |-> endLabel, size |-> size, offset |-> offsetPosition]]

\* TRUE when addGlobalSymbol ends in logFatal (exit status 1)
addGlobalSymbolFatal(name) == findGlobalSymbol(name) = -1 /\ GlobalIndexFatal

\* TRUE when addLocalSymbol ends in logFatal (exit status 1)
addLocalSymbolFatal(name) == findLocalSymbol(name) = -1 /\ LocalIndexFatal

\* The exit of the process when a symbol insertion is fatal
ExitIf(fatal) ==
    /\ exitStatus' = IF fatal THEN 1 ELSE exitStatus
    /\ errorReported' = (errorReported \/ fatal)

\* addGlobalSymbol as it would be if a repeated name refreshed the entry
addGlobalSymbol_overwrite(name, primitiveType, structuralType, endLabel, size) ==
    /\ LET found == findGlobalSymbol(name)
           call == [fn |-> "addGlobalSymbol", name |-> name,
                    structuralType |-> structuralType,
                    present |-> found # -1, full |-> TableFull, result |-> found]
       IN  IF found # -1
           THEN /\ symCall' = call
                /\ SymbolTable' =
                       updateSymbolTable(found, name, primitiveType, structuralType,
                                         "C_GLOBAL", endLabel, size, 0)
                /\ UNCHANGED <<NextGlobalSymbolIndex, declaredGlobals, insertedAt>>
           ELSE IF GlobalIndexFatal
           THEN /\ symCall' = call
                /\ NextGlobalSymbolIndex' = NextGlobalSymbolIndex + 1
                /\ UNCHANGED <<SymbolTable, declaredGlobals, insertedAt>>
           ELSE /\ symCall' = [call EXCEPT !.result = NextGlobalSymbolIndex]
                /\ NextGlobalSymbolIndex' = NextGlobalSymbolIndex + 1
                /\ SymbolTable' =
                       updateSymbolTable(NextGlobalSymbolIndex, name, primitiveType,
                                         structuralType, "C_GLOBAL", endLabel, size, 0)
                /\ declaredGlobals' = Append(declaredGlobals, NextGlobalSymbolIndex)
                /\ insertedAt' = insertedAt \cup
                       {[class |-> "C_GLOBAL", name |-> name,
                         slot |-> NextGlobalSymbolIndex]}
    /\ UNCHANGED <<NextLocalSymbolIndex, localOffset>>

\* int addGlobalSymbol(name, primitiveType, structuralType, endLabel, size):
\* its effect on the symbol table
addGlobalSymbol(name, primitiveType, structuralType, endLabel, size) ==
    /\ LET found == findGlobalSymbol(name)
           call == [fn |-> "addGlobalSymbol", name |-> name,
                    structuralType |-> structuralType,
                    present |-> found # -1, full |-> TableFull, result |-> found]
       IN  IF found # -1
           THEN /\ symCall' = call
                /\ UNCHANGED <<SymbolTable, NextGlobalSymbolIndex, declaredGlobals,
                                insertedAt>>
           ELSE IF GlobalIndexFatal
           THEN /\ symCall' = call
                /\ NextGlobalSymbolIndex' = NextGlobalSymbolIndex + 1
                /\ UNCHANGED <<SymbolTable, declaredGlobals, insertedAt>>
           ELSE /\ symCall' = [call EXCEPT !.result = NextGlobalSymbolIndex]
                /\ NextGlobalSymbolIndex' = NextGlobalSymbolIndex + 1
                /\ SymbolTable' =
                       updateSymbolTable(NextGlobalSymbolIndex, name, primitiveType,
                                         structuralType, "C_GLOBAL", endLabel, size, 0)
                /\ declaredGlobals' = Append(declaredGlobals, NextGlobalSymbolIndex)
                /\ insertedAt' = insertedAt \cup
                       {[class |-> "C_GLOBAL", name |-> name,
                         slot |-> NextGlobalSymbolIndex]}
    /\ UNCHANGED <<NextLocalSymbolIndex, localOffset>>

\* int addLocalSymbol(name, primitiveType, structuralType, endLabel, size):
\* its effect on the symbol table
addLocalSymbol(name, primitiveType, structuralType, endLabel, size) ==
    /\ LET found == findLocalSymbol(name)
           call == [fn |-> "addLocalSymbol", name |-> name,
                    structuralType |-> structuralType,
                    present |-> found # -1, full |-> TableFull, result |-> found]
       IN  IF found # -1
           THEN /\ symCall' = call
                /\ UNCHANGED <<SymbolTable, NextLocalSymbolIndex, localOffset,
                                insertedAt>>
           ELSE IF LocalIndexFatal
           THEN /\ symCall' = call
                /\ NextLocalSymbolIndex' = NextLocalSymbolIndex - 1
                /\ UNCHANGED <<SymbolTable, localOffset, insertedAt>>
           ELSE /\ symCall' = [call EXCEPT !.result = NextLocalSymbolIndex]
                /\ NextLocalSymbolIndex' = NextLocalSymbolIndex - 1
                /\ localOffset' = localOffset + LocalOffsetStep(primitiveType)
                /\ SymbolTable' =
                       updateSymbolTable(NextLocalSymbolIndex, name, primitiveType,
                                         structuralType, "C_LOCAL", endLabel, size,
                                         0 - (localOffset + LocalOffsetStep(primitiveType)))
                /\ insertedAt' = insertedAt \cup
                       {[class |-> "C_LOCAL", name |-> name,
                         slot |-> NextLocalSymbolIndex]}
    /\ UNCHANGED <<NextGlobalSymbolIndex, declaredGlobals>>

(***************************************************************************)
(* expr.c: the expression parser.  The input is the token stream the       *)
(* scanner delivers; Token is the token at position pos, and scan(&Token)  *)
(* moves to pos + 1.  Past the end of the input the scanner yields T_EOF.  *)
(* A parsing function returns the subtree, the position it stopped at and  *)
(* how it ended: "ok", "fatal" (logFatal*/match called exit(1)), or        *)
(* "undefined" (a null pointer was dereferenced).                          *)
(***************************************************************************)
Tk(token) == [token |-> token, text |-> "", intvalue |-> 0]

Ident(text) == [token |-> "T_IDENTIFIER", text |-> text, intvalue |-> 0]

IntLit(intvalue) == [token |-> "T_INTEGERLITERAL", text |-> "", intvalue |-> intvalue]

Tok(pos) == IF pos <= Len(exprInput) THEN exprInput[pos] ELSE Tk("T_EOF")

\* The declarations in scope while the expression is parsed.  The last three
\* are arrays of char, int and long: arrayAccess takes the element type with
\* pointerToPrimitiveType, so an array's entry carries the pointer type.
GlobalSymbolTable ==
    [i \in 0..10 |->
        [name |-> <<"c", "i", "j", "k", "l", "p", "q", "s",
                    "chars", "ints", "longs">>[i + 1],
         primitiveType |-> <<P_CHAR, P_INT, P_INT, P_INT, P_LONG, P_INTPTR,
                             P_LONGPTR, P_CHARPTR,
                             P_CHARPTR, P_INTPTR, P_LONGPTR>>[i + 1],
         structuralType |-> IF i >= 8 THEN "S_ARRAY" ELSE "S_VARIABLE"]]

\* findGlobalSymbol over the declarations in scope
findGlobalSymbolByText(text) ==
    LET hits == {i \in DOMAIN GlobalSymbolTable : GlobalSymbolTable[i].name = text}
    IN  IF hits = {} THEN -1 ELSE CHOOSE i \in hits : \A j \in hits : i <= j

ParseOk(tree, pos) == [status |-> "ok", tree |-> tree, pos |-> pos]

ParseFatal(pos) == [status |-> "fatal", tree |-> NULL, pos |-> pos]

\* tree is the operand that was about to be attached to the null pointer
ParseUndefined(tree, pos) == [status |-> "undefined", tree |-> tree, pos |-> pos]

\* node->isRvalue = value
SetRvalue(node, value) == [node EXCEPT !.isRvalue = value]

IsExpressionEnd(tokentype) ==
    tokentype \in {"T_SEMICOLON", "T_RPAREN", "T_RBRACKET"}

BinaryOperatorTokens ==
    {"T_ASSIGN", "T_LOGICALOR", "T_LOGICALAND", "T_BITWISEOR", "T_BITWISEXOR",
     "T_AMPERSAND", "T_EQ", "T_NE", "T_LT", "T_GT", "T_LE", "T_GE", "T_LSHIFT",
     "T_RSHIFT", "T_PLUS", "T_MINUS", "T_STAR", "T_SLASH"}

tokenToASTOperator(token) ==
    CASE token = "T_ASSIGN" -> "A_ASSIGN"
      [] token = "T_LOGICALOR" -> "A_LOGICALOR"
      [] token = "T_LOGICALAND" -> "A_LOGICALAND"
      [] token = "T_BITWISEOR" -> "A_BITWISEOR"
      [] token = "T_BITWISEXOR" -> "A_BITWISEXOR"
      [] token = "T_AMPERSAND" -> "A_BITWISEAND"
      [] token = "T_EQ" -> "A_EQ"
      [] token = "T_NE" -> "A_NE"
      [] token = "T_LT" -> "A_LT"
      [] token = "T_GT" -> "A_GT"
      [] token = "T_LE" -> "A_LE"
      [] token = "T_GE" -> "A_GE"
      [] token = "T_LSHIFT" -> "A_LSHIFT"
      [] token = "T_RSHIFT" -> "A_RSHIFT"
      [] token = "T_PLUS" -> "A_ADD"
      [] token = "T_MINUS" -> "A_SUBTRACT"
      [] token = "T_STAR" -> "A_MULTIPLY"
      [] token = "T_SLASH" -> "A_DIVIDE"
      [] OTHER -> "exit(1)"

isTokenRightAssociative_none(tokentype) == FALSE

isTokenRightAssociative(tokentype) == tokentype = "T_ASSIGN"

\* TRUE for the type keywords, on which operatorPrecedence calls logFatald
operatorPrecedenceFatal(tokentype) ==
    tokentype \in {"T_VOID", "T_CHAR", "T_INT", "T_LONG"}

operatorPrecedence(tokentype) ==
    CASE tokentype = "T_EOF" -> 0
      [] tokentype = "T_ASSIGN" -> 10
      [] tokentype = "T_LOGICALOR" -> 20
      [] tokentype = "T_LOGICALAND" -> 30
      [] tokentype = "T_BITWISEOR" -> 40
      [] tokentype = "T_BITWISEXOR" -> 50
      [] tokentype = "T_AMPERSAND" -> 60
      [] tokentype \in {"T_EQ", "T_NE"} -> 70
      [] tokentype \in {"T_LT", "T_GT", "T_LE", "T_GE"} -> 80
      [] tokentype \in {"T_LSHIFT", "T_RSHIFT"} -> 90
      [] tokentype \in {"T_PLUS", "T_MINUS"} -> 100
      [] tokentype \in {"T_STAR", "T_SLASH"} -> 110
      [] OTHER -> 0

RECURSIVE binexpr(_, _)
RECURSIVE binexprLoop(_, _, _)
RECURSIVE prefix(_)

\* arrayAccess, entered with Text the identifier at pos and Token the '[' at
\* pos + 1: the index is parsed, ']' matched, the index coerced for A_ADD
\* against the array's type, and DEREFERENCE(ADD(identifier, index)) built.
arrayAccess(pos) ==
    LET id == findGlobalSymbolByText(Tok(pos).text)
        arrayType == GlobalSymbolTable[id].primitiveType
        index == binexpr(pos + 2, 0)
        leftNode == makeASTLeaf("A_IDENTIFIER", arrayType, id)
        rightNode == coerceASTTypeForOp(CurrentTarget, index.tree, arrayType, "A_ADD")
    IN  IF id = -1 THEN ParseFatal(pos + 1)
        ELSE IF GlobalSymbolTable[id].structuralType # "S_ARRAY"
        THEN ParseFatal(pos + 1)
        ELSE IF index.status # "ok" THEN index
        ELSE IF Tok(index.pos).token # "T_RBRACKET" THEN ParseFatal(index.pos)
        ELSE IF ~isIntegerType(index.tree.primitiveType)
        THEN ParseFatal(index.pos + 1)
        ELSE IF pointerToPrimitiveType(arrayType) = -1
        THEN ParseFatal(index.pos + 1)
        ELSE ParseOk(makeASTUnary("A_DEREFERENCE",
                         pointerToPrimitiveType(arrayType),
                         makeASTNode("A_ADD", arrayType, leftNode, NULL, rightNode, 0),
                         0),
                     index.pos + 1)

\* postfix, entered with Token the identifier at pos.  The inputs hold no
\* '(' after an identifier and no "++"/"--", so the array and the variable
\* case of the function are taken.
postfix(pos) ==
    LET identifier == IF Tok(pos + 1).token = "T_IDENTIFIER"
                      THEN Tok(pos + 1).text ELSE Tok(pos).text
        id == findGlobalSymbolByText(identifier)
    IN  IF Tok(pos + 1).token = "T_LBRACKET" THEN arrayAccess(pos)
        ELSE IF id = -1 THEN ParseFatal(pos + 1)
        ELSE IF GlobalSymbolTable[id].structuralType # "S_VARIABLE"
        THEN ParseFatal(pos + 1)
        ELSE ParseOk(makeASTLeaf("A_IDENTIFIER",
                                 GlobalSymbolTable[id].primitiveType, id), pos + 1)

\* primary: integer literal, identifier, or parenthesised expression
primary(pos) ==
    LET t == Tok(pos)
    IN  CASE t.token = "T_INTEGERLITERAL" ->
               IF t.intvalue >= 0 /\ t.intvalue <= 255
               THEN ParseOk(makeASTLeaf("A_INTEGERLITERAL", P_CHAR, t.intvalue), pos + 1)
               ELSE ParseOk(makeASTLeaf("A_INTEGERLITERAL", P_INT, t.intvalue), pos + 1)
          [] t.token = "T_IDENTIFIER" -> postfix(pos)
          [] t.token = "T_LPAREN" ->
               LET n == binexpr(pos + 1, 0)
               IN  IF n.status # "ok" THEN n
                   ELSE IF Tok(n.pos).token = "T_RPAREN"
                        THEN ParseOk(n.tree, n.pos + 1)
                        ELSE ParseFatal(n.pos)
          [] OTHER -> ParseFatal(pos)

\* prefix: '&', '*' and '-' applied to a prefix expression, else primary
prefix(pos) ==
    LET t == Tok(pos)
        sub == prefix(pos + 1)
        tree == sub.tree
    IN  CASE t.token = "T_AMPERSAND" ->
               IF sub.status # "ok" THEN sub
               ELSE IF tree.op # "A_IDENTIFIER" THEN ParseFatal(sub.pos)
               ELSE IF primitiveTypeToPointerType(tree.primitiveType) = -1
                    THEN ParseFatal(sub.pos)
               ELSE ParseOk([tree EXCEPT
                               !.op = "A_ADDRESSOF",
                               !.primitiveType =
                                   primitiveTypeToPointerType(tree.primitiveType)],
                            sub.pos)
          [] t.token = "T_STAR" ->
               IF sub.status # "ok" THEN sub
               ELSE IF tree.op # "A_IDENTIFIER" /\ tree.op # "A_DEREFERENCE"
                    THEN ParseFatal(sub.pos)
               ELSE IF pointerToPrimitiveType(tree.primitiveType) = -1
                    THEN ParseFatal(sub.pos)
               ELSE ParseOk(makeASTUnary("A_DEREFERENCE",
                                pointerToPrimitiveType(tree.primitiveType), tree, 0),
                            sub.pos)
          [] t.token = "T_MINUS" ->
               IF sub.status # "ok" THEN sub
               ELSE ParseOk(makeASTUnary("A_LOGICALNEGATE", P_INT,
                                coerceASTTypeForOp(CurrentTarget,
                                    SetRvalue(tree, TRUE), P_INT, "A_NOTHING"), 0),
                            sub.pos)
          [] OTHER -> primary(pos)

\* The body of binexpr's while loop, entered with the left operand parsed and
\* Token (at pos) the operator that follows it.
binexprLoop(left, pos, ptp) ==
    LET tokentype == Tok(pos).token
        prec == operatorPrecedence(tokentype)
        rhs == binexpr(pos + 1, prec)
        ASToperation == tokenToASTOperator(tokentype)
        \* assignment: coerce the right side to the left side's type, then swap
        assignValue == coerceASTTypeForOp(CurrentTarget, SetRvalue(rhs.tree, TRUE),
                                          left.primitiveType, "A_NOTHING")
        assignTarget == SetRvalue(left, FALSE)
        \* any other operator: try to coerce each side to the other's type
        leftR == SetRvalue(left, TRUE)
        rightR == SetRvalue(rhs.tree, TRUE)
        leftTemp == coerceASTTypeForOp(CurrentTarget, leftR,
                                       rightR.primitiveType, ASToperation)
        rightTemp == coerceASTTypeForOp(CurrentTarget, rightR,
                                        leftR.primitiveType, ASToperation)
        newLeft == IF ASToperation = "A_ASSIGN" THEN assignValue
                   ELSE IF IsNull(leftTemp) THEN leftR ELSE leftTemp
        newRight == IF ASToperation = "A_ASSIGN" THEN assignTarget
                    ELSE IF IsNull(rightTemp) THEN rightR ELSE rightTemp
        node == makeASTNode(ASToperation, newLeft.primitiveType,
                            newLeft, NULL, newRight, 0)
    IN  IF operatorPrecedenceFatal(tokentype) THEN ParseFatal(pos)
        ELSE IF ~(prec > ptp \/ (isTokenRightAssociative(tokentype) /\ prec = ptp))
        THEN ParseOk(SetRvalue(left, TRUE), pos)
        ELSE IF rhs.status # "ok" THEN rhs
        ELSE IF ASToperation = "A_ASSIGN" /\ IsNull(left) THEN ParseFatal(rhs.pos)
        ELSE IF ASToperation = "A_ASSIGN" /\ IsNull(assignValue)
        THEN ParseUndefined(assignTarget, rhs.pos)  \* reads left->primitiveType
        ELSE IF ASToperation # "A_ASSIGN" /\ IsNull(leftTemp) /\ IsNull(rightTemp)
        THEN ParseFatal(rhs.pos)
        ELSE IF IsExpressionEnd(Tok(rhs.pos).token)
        THEN ParseOk(SetRvalue(node, TRUE), rhs.pos)
        ELSE binexprLoop(node, rhs.pos, ptp)

\* struct ASTnode *binexpr(int ptp), entered with Token at pos
binexpr(pos, ptp) ==
    LET left == prefix(pos)
    IN  IF left.status # "ok" THEN left
        ELSE IF IsExpressionEnd(Tok(left.pos).token)
        THEN ParseOk(SetRvalue(left.tree, TRUE), left.pos)
        ELSE binexprLoop(left.tree, left.pos, ptp)

ExprIdle ==
    /\ exprInput = <<>>
    /\ exprPc = "idle"
    /\ exprTree = NULL
    /\ exprAssignRejected = FALSE

\* A literal above 255, which primary types as int rather than char
BigLiteral == 300

Operands == {Ident("c"), Ident("i"), Ident("l"), Ident("p"), Ident("q"),
             Ident("s"), IntLit(1), IntLit(BigLiteral)}

\* x OP y ;
TwoOperandInputs ==
    {<<x, Tk(op), y, Tk("T_SEMICOLON")>> :
        x \in Operands, op \in BinaryOperatorTokens, y \in Operands}

\* a OP1 b OP2 c ;
ThreeOperandInputs ==
    {<<a, Tk(op1), b, Tk(op2), c, Tk("T_SEMICOLON")>> :
        a \in {Ident("i"), Ident("l")}, op1 \in BinaryOperatorTokens,
        b \in {Ident("j")}, op2 \in BinaryOperatorTokens,
        c \in {Ident("k"), IntLit(1)}}

\* parentheses, prefix operators, and malformed expressions
OtherInputs ==
    {<<Tk("T_LPAREN"), Ident("i"), Tk("T_PLUS"), Ident("j"), Tk("T_RPAREN"),
       Tk("T_STAR"), Ident("k"), Tk("T_SEMICOLON")>>,
     <<Ident("i"), Tk("T_STAR"), Tk("T_LPAREN"), Ident("j"), Tk("T_PLUS"),
       Ident("k"), Tk("T_RPAREN"), Tk("T_SEMICOLON")>>,
     <<Tk("T_LPAREN"), Ident("i"), Tk("T_PLUS"), Ident("j"), Tk("T_SEMICOLON")>>,
     <<Tk("T_MINUS"), Ident("c"), Tk("T_PLUS"), Ident("l"), Tk("T_SEMICOLON")>>,
     <<Tk("T_MINUS"), Ident("l"), Tk("T_SEMICOLON")>>,
     <<Tk("T_STAR"), Ident("p"), Tk("T_ASSIGN"), Ident("l"), Tk("T_SEMICOLON")>>,
     <<Tk("T_STAR"), Ident("p"), Tk("T_ASSIGN"), IntLit(1), Tk("T_SEMICOLON")>>,
     <<Tk("T_STAR"), Ident("c"), Tk("T_SEMICOLON")>>,
     <<Ident("p"), Tk("T_ASSIGN"), Tk("T_AMPERSAND"), Ident("i"), Tk("T_SEMICOLON")>>,
     <<Tk("T_AMPERSAND"), IntLit(1), Tk("T_SEMICOLON")>>,
     <<Ident("i"), Tk("T_PLUS"), Tk("T_SEMICOLON")>>,
     <<Ident("undeclared"), Tk("T_SEMICOLON")>>,
     <<Ident("i"), Tk("T_ASSIGN"), Ident("j"), Tk("T_INT"), Tk("T_SEMICOLON")>>,
     <<Ident("i"), Tk("T_SEMICOLON")>>}

\* a [ i ] ;  and  a [ i ] = 1 ;  with a an array, a variable or undeclared
SubscriptInputs ==
    {<<a, Tk("T_LBRACKET"), i, Tk("T_RBRACKET")>> \o rest :
        a \in {Ident("chars"), Ident("ints"), Ident("longs"), Ident("i"),
               Ident("undeclared")},
        i \in Operands,
        rest \in {<<Tk("T_SEMICOLON")>>,
                  <<Tk("T_ASSIGN"), IntLit(1), Tk("T_SEMICOLON")>>}}
    \cup {<<Ident("ints"), Tk("T_LBRACKET"), Ident("i"), Tk("T_PLUS"), IntLit(1),
            Tk("T_RBRACKET"), Tk("T_SEMICOLON")>>,
          <<Ident("ints"), Tk("T_LBRACKET"), Ident("i"), Tk("T_SEMICOLON")>>}

ExprInputs ==
    TwoOperandInputs \cup ThreeOperandInputs \cup OtherInputs \cup SubscriptInputs

(***************************************************************************)
(* cgn_regs.c, gen.c: the register pools and the tree walk of the code     *)
(* generator.  What the walk changes is carried in a record g: the pool    *)
(* (free), the label counter (labelId), how the walk ended (status: "ok",  *)
(* or "fatal" when exit(1) was called), the register the last call         *)
(* returned (reg), and the type of the function being generated.  The      *)
(* assembly text written to Outfile is not part of the record.  Three      *)
(* fields observe the walk without influencing it: nesting (depth inside   *)
(* IF/WHILE), topLevelResets (resets done by GLUE nodes at depth 0), and   *)
(* statementBeganBusy (a statement was begun with a register in use).      *)
(***************************************************************************)
NUMFREEREGISTERS == 4

\* The number of elements of the backend's pool array
PoolSize(target) == IF target = TARGET_NASM THEN NUMFREEREGISTERS ELSE 8

\* The pools as the static initialisers leave them: all free on NASM,
\* zero-initialised (all in use) on AArch64
PoolAtLoad(target) == [r \in 0..(PoolSize(target) - 1) |-> target = TARGET_NASM]

\* nasmResetRegisterPool / aarch64ResetRegisterPool
resetRegisters(g) == [g EXCEPT !.free = [r \in DOMAIN g.free |-> TRUE]]

GenFatal(g) == [g EXCEPT !.status = "fatal", !.reg = NOREG]

\* allocateRegister handing out the highest free register
allocateRegister_highest(g) ==
    LET avail == {r \in DOMAIN g.free : g.free[r]}
    IN  IF avail = {} THEN GenFatal(g)
        ELSE LET r == CHOOSE x \in avail : \A y \in avail : x >= y
             IN  [g EXCEPT !.free[r] = FALSE, !.reg = r]

\* allocateRegister: the lowest free register, or exit(1)
allocateRegister(g) ==
    LET avail == {r \in DOMAIN g.free : g.free[r]}
    IN  IF avail = {} THEN GenFatal(g)
        ELSE LET r == CHOOSE x \in avail : \A y \in avail : x <= y
             IN  [g EXCEPT !.free[r] = FALSE, !.reg = r]

\* freeRegister without the test for a register that is already free
freeRegister_silent(g, r) ==
    IF r \notin DOMAIN g.free THEN [g EXCEPT !.status = "undefined", !.reg = NOREG]
    ELSE [g EXCEPT !.free[r] = TRUE]

\* freeRegister: exit(1) when the register is already free.  An index
\* outside the array is a read past it.
freeRegister(g, r) ==
    IF r \notin DOMAIN g.free THEN [g EXCEPT !.status = "undefined", !.reg = NOREG]
    ELSE IF g.free[r] THEN GenFatal(g)
    ELSE [g EXCEPT !.free[r] = TRUE]

\* return reg, after the pool operations that led to g
Returning(g, reg) == IF g.status = "ok" THEN [g EXCEPT !.reg = reg] ELSE g

\* The walk records the generator functions it calls and the jumps and labels
\* it writes, each with the place of the node being generated (the path of
\* child links from the function's node)
Emit(g, e, l) == [g EXCEPT !.trace = Append(@, [e |-> e, l |-> l, at |-> g.at])]

\* codegenGetLabelNumber handing out the same number again
codegenGetLabelNumber_stuck(g) == Emit([g EXCEPT !.reg = g.labelId], "getlabel", g.labelId)

\* static int id = 1; return (id++);
codegenGetLabelNumber(g) ==
    Emit([g EXCEPT !.labelId = g.labelId + 1, !.reg = g.labelId], "getlabel", g.labelId)

\* codegenResetRegisters: CG->resetRegisters()
codegenResetRegisters(g) == Emit(resetRegisters(g), "reset", NOLABEL)

\* codegenJump: CG->jump(label)
codegenJump(g, label) == Emit(g, "jump", label)

\* codegenLabel: CG->label(label)
codegenLabel(g, label) == Emit(g, "label", label)

\* addRegs, subRegs, mulRegs, divRegsSigned, compareAndSet: the operation on
\* r1 and r2 frees one of them and returns the other
TwoOperandOperation(fn, g, r1, r2, freed, kept) ==
    LET after == freeRegister(g, freed)
    IN  Returning([after EXCEPT !.ops =
                       Append(@, [fn |-> fn, r1 |-> r1, r2 |-> r2, before |-> g.free,
                                  after |-> after.free, result |-> kept])], kept)

\* The walk is about to emit the statement n (not a GLUE list, not empty)
BeginStatement(n, g) ==
    IF IsNull(n) \/ n.op = "A_GLUE" \/ g.status # "ok" THEN g
    ELSE [g EXCEPT !.statementBeganBusy =
                       g.statementBeganBusy \/ (\E r \in DOMAIN g.free : ~g.free[r])]

ComparisonOps == {"A_EQ", "A_NE", "A_LT", "A_GT", "A_LE", "A_GE"}

(***************************************************************************)
(* The instructions a backend writes are recorded in the walk's code field *)
(* as records: cmp a, b; a conditional jump or branch to L<label>; shl reg *)
(* by a constant (lsl on AArch64); mov reg, imm; mul dst, src (imul on     *)
(* x86-64, mul dst, dst, src on AArch64).  A register name is read from    *)
(* the backend's register list, so an index outside the pool is a read     *)
(* past the list.                                                          *)
(***************************************************************************)
\* nasmCompareAndJump jumping when the comparison holds
nasmCompareAndJump_jumpWhenTrue(g, ASTop, r1, r2, label) ==
    IF ASTop \notin ComparisonOps THEN GenFatal(g)
    ELSE IF r1 \notin DOMAIN g.free \/ r2 \notin DOMAIN g.free
    THEN [g EXCEPT !.status = "undefined", !.reg = NOREG]
    ELSE LET branch ==
                     CASE ASTop = "A_EQ" -> "je"
                       [] ASTop = "A_NE" -> "jne"
                       [] ASTop = "A_LT" -> "jl"
                       [] ASTop = "A_LE" -> "jle"
                       [] ASTop = "A_GT" -> "jg"
                       [] ASTop = "A_GE" -> "jge"
         IN  Returning(resetRegisters(
                           [g EXCEPT !.code = @ \o <<[op |-> "cmp", a |-> r1, b |-> r2],
                                                     [op |-> branch, label |-> label]>>]),
                       NOREG)

\* int nasmCompareAndJump(int ASTop, int r1, int r2, int label)
nasmCompareAndJump(g, ASTop, r1, r2, label) ==
    IF ASTop \notin ComparisonOps THEN GenFatal(g)
    ELSE IF r1 \notin DOMAIN g.free \/ r2 \notin DOMAIN g.free
    THEN [g EXCEPT !.status = "undefined", !.reg = NOREG]
    ELSE LET branch ==
                     CASE ASTop = "A_EQ" -> "jne"
                       [] ASTop = "A_NE" -> "je"
                       [] ASTop = "A_LT" -> "jge"
                       [] ASTop = "A_LE" -> "jg"
                       [] ASTop = "A_GT" -> "jle"
                       [] ASTop = "A_GE" -> "jl"
         IN  Returning(resetRegisters(
                           [g EXCEPT !.code = @ \o <<[op |-> "cmp", a |-> r1, b |-> r2],
                                                     [op |-> branch, label |-> label]>>]),
                       NOREG)

\* int aarch64CompareAndJump(int ASTop, int r1, int r2, int label)
aarch64CompareAndJump(g, ASTop, r1, r2, label) ==
    IF ASTop \notin ComparisonOps THEN GenFatal(g)
    ELSE IF r1 \notin DOMAIN g.free \/ r2 \notin DOMAIN g.free
    THEN [g EXCEPT !.status = "undefined", !.reg = NOREG]
    ELSE LET branch ==
                     CASE ASTop = "A_EQ" -> "bne"
                       [] ASTop = "A_NE" -> "beq"
                       [] ASTop = "A_LT" -> "bge"
                       [] ASTop = "A_LE" -> "bgt"
                       [] ASTop = "A_GT" -> "ble"
                       [] ASTop = "A_GE" -> "blt"
         IN  Returning(resetRegisters(
                           [g EXCEPT !.code = @ \o <<[op |-> "cmp", a |-> r1, b |-> r2],
                                                     [op |-> branch, label |-> label]>>]),
                       NOREG)

\* case A_SCALETYPE with the payload itself as the shift amount
codegenScaleType_shiftBySize(n, leftRegister, g) ==
    LET shiftLeftConst(reg, shiftAmount) ==
            IF reg \notin DOMAIN g.free
            THEN [g EXCEPT !.status = "undefined", !.reg = NOREG]
            ELSE Returning([g EXCEPT !.code = Append(@, [op |-> "shl", reg |-> reg,
                                                         by |-> shiftAmount])], reg)
        mulRegs(loaded) ==
            TwoOperandOperation("A_MULTIPLY",
                                [loaded EXCEPT !.code =
                                     @ \o <<[op |-> "mov", reg |-> loaded.reg,
                                             imm |-> n.v],
                                            [op |-> "mul", dst |-> loaded.reg,
                                             src |-> leftRegister]>>],
                                leftRegister, loaded.reg, leftRegister, loaded.reg)
        loadImmediateAndMultiply(loaded) ==
            IF loaded.status # "ok" THEN loaded ELSE mulRegs(loaded)
    IN  CASE n.v = 2 -> shiftLeftConst(leftRegister, 2)
          [] n.v = 4 -> shiftLeftConst(leftRegister, 4)
          [] n.v = 8 -> shiftLeftConst(leftRegister, 8)
          [] OTHER -> loadImmediateAndMultiply(allocateRegister(g))

\* case A_SCALETYPE of codegenAST: shiftLeftConst for the sizes 2, 4 and 8,
\* otherwise loadImmediateInt(size, P_INT) into a new register and mulRegs,
\* which frees the left register and returns the new one
codegenScaleType(n, leftRegister, g) ==
    LET shiftLeftConst(reg, shiftAmount) ==
            IF reg \notin DOMAIN g.free
            THEN [g EXCEPT !.status = "undefined", !.reg = NOREG]
            ELSE Returning([g EXCEPT !.code = Append(@, [op |-> "shl", reg |-> reg,
                                                         by |-> shiftAmount])], reg)
        mulRegs(loaded) ==
            TwoOperandOperation("A_MULTIPLY",
                                [loaded EXCEPT !.code =
                                     @ \o <<[op |-> "mov", reg |-> loaded.reg,
                                             imm |-> n.v],
                                            [op |-> "mul", dst |-> loaded.reg,
                                             src |-> leftRegister]>>],
                                leftRegister, loaded.reg, leftRegister, loaded.reg)
        loadImmediateAndMultiply(loaded) ==
            IF loaded.status # "ok" THEN loaded ELSE mulRegs(loaded)
    IN  CASE n.v = 2 -> shiftLeftConst(leftRegister, 1)
          [] n.v = 4 -> shiftLeftConst(leftRegister, 2)
          [] n.v = 8 -> shiftLeftConst(leftRegister, 3)
          [] OTHER -> loadImmediateAndMultiply(allocateRegister(g))

\* The second switch of codegenAST: the backend operation for node n, given
\* the registers of its children.  The trees of the inputs hold the node
\* kinds listed here; an assignment's target is always an identifier.
codegenOperation(n, label, parentASTop, leftRegister, rightRegister, g) ==
    CASE n.op \in {"A_ADD", "A_MULTIPLY"} ->          \* addRegs, mulRegs
           TwoOperandOperation(n.op, g, leftRegister, rightRegister,
                               leftRegister, rightRegister)
      [] n.op \in {"A_SUBTRACT", "A_DIVIDE"} ->        \* subRegs, divRegsSigned
           TwoOperandOperation(n.op, g, leftRegister, rightRegister,
                               rightRegister, leftRegister)
      [] n.op \in ComparisonOps ->
           IF parentASTop = "A_IF" \/ parentASTop = "A_WHILE"
           THEN Emit(IF CurrentTarget = TARGET_NASM
                     THEN nasmCompareAndJump(g, n.op, leftRegister, rightRegister,
                                             label)
                     ELSE aarch64CompareAndJump(g, n.op, leftRegister,
                                                rightRegister, label),
                     "compareAndJump", label)
           ELSE TwoOperandOperation(n.op, g, leftRegister, rightRegister,
                                    leftRegister, rightRegister)
      [] n.op = "A_INTEGERLITERAL" -> allocateRegister(g)
      [] n.op = "A_IDENTIFIER" ->
           IF GlobalSymbolTable[n.v].structuralType = "S_ARRAY"
           THEN allocateRegister(g)                    \* addressOfGlobalSymbol
           ELSE IF n.isRvalue \/ parentASTop = "A_DEREFERENCE"
           THEN allocateRegister(g)                    \* loadGlobalSymbol
           ELSE Returning(g, NOREG)
      [] n.op = "A_ASSIGN" ->
           IF n.right.op = "A_IDENTIFIER"
           THEN Returning(g, leftRegister)             \* storeGlobalSymbol
           ELSE GenFatal(g)
      [] n.op = "A_WIDENTYPE" -> Returning(g, leftRegister)
      [] n.op = "A_SCALETYPE" -> codegenScaleType(n, leftRegister, g)
      [] n.op = "A_RETURN" ->                          \* returnFromFunction
           IF g.functionType \in {P_CHAR, P_INT, P_LONG}
           THEN Returning(codegenJump(g, g.endLabel), NOREG) ELSE GenFatal(g)
      [] OTHER -> GenFatal(g)                          \* Unknown AST operator

RECURSIVE codegenAST(_, _, _, _)

\* codegenAST(n->left | n->middle | n->right, label, n->op)
codegenChild(n, child, label, g) ==
    LET down == [g EXCEPT !.at = Append(@, child)]
        back == codegenAST(n[child], label, n.op, down)
    IN  [back EXCEPT !.at = g.at]

\* codegenIfStatementAST with the false label written before the jump over
\* the else-branch
codegenIfStatementAST_labelFirst(n, g) ==
    LET g1 == codegenGetLabelNumber(g)
        labelFalseStatement == g1.reg
        g2 == IF IsNull(n.right) THEN g1 ELSE codegenGetLabelNumber(g1)
        labelEndStatement == g2.reg
        inside == [g2 EXCEPT !.nesting = g2.nesting + 1]
        cond == codegenResetRegisters(
                    codegenChild(n, "left", labelFalseStatement, inside))
        then == codegenResetRegisters(
                    codegenChild(n, "middle", NOLABEL, BeginStatement(n.middle, cond)))
        false == IF IsNull(n.right) THEN codegenLabel(then, labelFalseStatement)
                 ELSE codegenJump(codegenLabel(then, labelFalseStatement),
                                  labelEndStatement)
        else == IF IsNull(n.right) THEN false
                ELSE codegenLabel(
                         codegenResetRegisters(
                             codegenChild(n, "right", NOREG,
                                          BeginStatement(n.right, false))),
                         labelEndStatement)
    IN  IF cond.status # "ok" THEN cond
        ELSE IF then.status # "ok" THEN then
        ELSE IF else.status # "ok" THEN else
        ELSE [else EXCEPT !.nesting = g.nesting, !.reg = NOREG]

\* static int codegenIfStatementAST(struct ASTnode *n)
codegenIfStatementAST(n, g) ==
    LET g1 == codegenGetLabelNumber(g)
        labelFalseStatement == g1.reg
        g2 == IF IsNull(n.right) THEN g1 ELSE codegenGetLabelNumber(g1)
        labelEndStatement == g2.reg
        inside == [g2 EXCEPT !.nesting = g2.nesting + 1]
        cond == codegenResetRegisters(
                    codegenChild(n, "left", labelFalseStatement, inside))
        then == codegenResetRegisters(
                    codegenChild(n, "middle", NOLABEL, BeginStatement(n.middle, cond)))
        false == IF IsNull(n.right) THEN codegenLabel(then, labelFalseStatement)
                 ELSE codegenLabel(codegenJump(then, labelEndStatement),
                                   labelFalseStatement)
        else == IF IsNull(n.right) THEN false
                ELSE codegenLabel(
                         codegenResetRegisters(
                             codegenChild(n, "right", NOREG,
                                          BeginStatement(n.right, false))),
                         labelEndStatement)
    IN  IF cond.status # "ok" THEN cond
        ELSE IF then.status # "ok" THEN then
        ELSE IF else.status # "ok" THEN else
        ELSE [else EXCEPT !.nesting = g.nesting, !.reg = NOREG]

\* codegenWhileStatementAST jumping to the end label instead of the start
codegenWhileStatementAST_jumpToEnd(n, g) ==
    LET g1 == codegenGetLabelNumber(g)
        labelStartLoop == g1.reg
        g2 == codegenGetLabelNumber(g1)
        labelEndLoop == g2.reg
        inside == codegenLabel([g2 EXCEPT !.nesting = g2.nesting + 1], labelStartLoop)
        cond == codegenResetRegisters(codegenChild(n, "left", labelEndLoop, inside))
        body == codegenResetRegisters(
                    codegenChild(n, "right", NOLABEL, BeginStatement(n.right, cond)))
        end == codegenLabel(codegenJump(body, labelEndLoop), labelEndLoop)
    IN  IF cond.status # "ok" THEN cond
        ELSE IF body.status # "ok" THEN body
        ELSE [end EXCEPT !.nesting = g.nesting, !.reg = NOREG]

\* static int codegenWhileStatementAST(struct ASTnode *n)
codegenWhileStatementAST(n, g) ==
    LET g1 == codegenGetLabelNumber(g)
        labelStartLoop == g1.reg
        g2 == codegenGetLabelNumber(g1)
        labelEndLoop == g2.reg
        inside == codegenLabel([g2 EXCEPT !.nesting = g2.nesting + 1], labelStartLoop)
        cond == codegenResetRegisters(codegenChild(n, "left", labelEndLoop, inside))
        body == codegenResetRegisters(
                    codegenChild(n, "right", NOLABEL, BeginStatement(n.right, cond)))
        end == codegenLabel(codegenJump(body, labelStartLoop), labelEndLoop)
    IN  IF cond.status # "ok" THEN cond
        ELSE IF body.status # "ok" THEN body
        ELSE [end EXCEPT !.nesting = g.nesting, !.reg = NOREG]

\* A reset done by a GLUE node; counted when the node joins top-level statements
GlueReset(g) ==
    LET r == codegenResetRegisters(g)
    IN  IF g.nesting = 0 THEN [r EXCEPT !.topLevelResets = r.topLevelResets + 1]
        ELSE r

\* case A_GLUE with the reset after the left subtree lost
codegenAST_GLUE_oneReset(n, g) ==
    LET left == codegenChild(n, "left", NOLABEL, BeginStatement(n.left, g))
        right == GlueReset(codegenChild(n, "right", NOLABEL,
                                        BeginStatement(n.right, left)))
    IN  IF left.status # "ok" THEN left
        ELSE IF right.status # "ok" THEN right
        ELSE Returning(right, NOREG)

\* case A_GLUE of codegenAST
codegenAST_GLUE(n, g) ==
    LET left == GlueReset(codegenChild(n, "left", NOLABEL, BeginStatement(n.left, g)))
        right == GlueReset(codegenChild(n, "right", NOLABEL,
                                        BeginStatement(n.right, left)))
    IN  IF left.status # "ok" THEN left
        ELSE IF right.status # "ok" THEN right
        ELSE Returning(right, NOREG)

\* int codegenAST(struct ASTnode *n, int label, int parentASTop)
codegenAST(n, label, parentASTop, g) ==
    IF g.status # "ok" THEN g
    ELSE IF IsNull(n) THEN Returning(g, NOREG)
    ELSE CASE n.op = "A_IF" -> codegenIfStatementAST(n, g)
           [] n.op = "A_WHILE" -> codegenWhileStatementAST(n, g)
           [] n.op = "A_GLUE" -> codegenAST_GLUE(n, g)
           [] n.op = "A_FUNCTION" ->            \* preamble, body, postamble
                LET body == codegenChild(n, "left", NOLABEL,
                                         BeginStatement(n.left, g))
                IN  IF body.status # "ok" THEN body
                    ELSE Returning(codegenLabel(body, body.endLabel), NOREG)
           [] OTHER ->
                LET gl == IF IsNull(n.left) THEN g
                          ELSE codegenChild(n, "left", NOLABEL, g)
                    leftRegister == gl.reg
                    gr == IF IsNull(n.right) THEN gl
                          ELSE codegenChild(n, "right", NOLABEL, gl)
                    rightRegister == gr.reg
                IN  IF gr.status # "ok" THEN gr
                    ELSE Emit(codegenOperation(n, label, parentASTop, leftRegister,
                                               rightRegister, gr), n.op, NOLABEL)

(***************************************************************************)
(* stmt.c, decl.c: the trees the statement parser hands to the generator.  *)
(* A function body is given as the list of its top-level statements, each  *)
(* named by its kind; the expressions in them are  i = 1,  return (1)  and *)
(* the condition  i < j  over the int variables i and j.                   *)
(***************************************************************************)
StatementOk(tree) == [status |-> "ok", tree |-> tree]

StatementFatal == [status |-> "fatal", tree |-> NULL]

\* binexpr(0) on "1": the literal, typed char, as an rvalue
LiteralOne == SetRvalue(makeASTLeaf("A_INTEGERLITERAL", P_CHAR, 1), TRUE)

\* A_IDENTIFIER leaf for the variable with the given name
VariableLeaf(name) ==
    makeASTLeaf("A_IDENTIFIER",
                GlobalSymbolTable[findGlobalSymbolByText(name)].primitiveType,
                findGlobalSymbolByText(name))

\* binexpr(0) on "i = 1": the coerced value on the left, the target on the right
assignmentStatement ==
    LET Assign(target, value) ==
            StatementOk(SetRvalue(makeASTNode("A_ASSIGN", value.primitiveType, value,
                                              NULL, SetRvalue(target, FALSE), 0),
                                  TRUE))
        Coerced(target) ==
            Assign(target, coerceASTTypeForOp(CurrentTarget, LiteralOne,
                                              target.primitiveType, "A_NOTHING"))
    IN  Coerced(VariableLeaf("i"))

\* binexpr(0) on "i = i + j * k - j / k < k": every operand is an int rvalue
\* and no node needs a coercion
arithmeticStatement ==
    LET Binary(op, left, right) ==
            SetRvalue(makeASTNode(op, P_INT, left, NULL, right, 0), TRUE)
        Value(name) == SetRvalue(VariableLeaf(name), TRUE)
        sum == Binary("A_ADD", Value("i"),
                      Binary("A_MULTIPLY", Value("j"), Value("k")))
        difference == Binary("A_SUBTRACT", sum,
                             Binary("A_DIVIDE", Value("j"), Value("k")))
        value == Binary("A_LT", difference, Value("k"))
    IN  StatementOk(SetRvalue(makeASTNode("A_ASSIGN", P_INT, value, NULL,
                                          SetRvalue(VariableLeaf("i"), FALSE), 0),
                              TRUE))

\* binexpr(0) on "i < j"
conditionAST ==
    LET left == SetRvalue(VariableLeaf("i"), TRUE)
        right == SetRvalue(VariableLeaf("j"), TRUE)
    IN  SetRvalue(makeASTNode("A_LT", left.primitiveType, left, NULL, right, 0), TRUE)

\* returnStatement on "return (1)" in a function of the given type
returnStatement(functionType) ==
    LET Return(value) ==
            IF functionType = P_VOID THEN StatementFatal
            ELSE IF IsNull(value) THEN StatementFatal
            ELSE StatementOk(makeASTUnary("A_RETURN", P_NONE, value, 0))
    IN  Return(coerceASTTypeForOp(CurrentTarget, LiteralOne, functionType,
                                  "A_NOTHING"))

\* What compoundStatement does with the next statement's tree
Glue(leftASTNode, treeNode) ==
    IF IsNull(treeNode) THEN leftASTNode
    ELSE IF IsNull(leftASTNode) THEN treeNode
    ELSE makeASTNode("A_GLUE", P_NONE, leftASTNode, NULL, treeNode, 0)

\* ifStatement: if (i < j) { i = 1; }  with or without  else { i = 1; i = 1; }
ifStatement(withElse) ==
    LET If(statement) ==
            StatementOk(makeASTNode("A_IF", P_NONE, conditionAST, statement,
                                    IF withElse THEN Glue(statement, statement)
                                    ELSE NULL, 0))
    IN  If(assignmentStatement.tree)

\* whileStatement: while (i < j) { i = 1; }
whileStatement ==
    StatementOk(makeASTNode("A_WHILE", P_NONE, conditionAST, NULL,
                            assignmentStatement.tree, 0))

StatementKinds == {"declaration", "assignment", "arithmetic", "return", "if",
                   "ifelse", "while"}

\* singleStatement; a local declaration yields no tree
singleStatement(kind, functionType) ==
    CASE kind = "declaration" -> StatementOk(NULL)
      [] kind = "assignment" -> assignmentStatement
      [] kind = "arithmetic" -> arithmeticStatement
      [] kind = "return" -> returnStatement(functionType)
      [] kind = "if" -> ifStatement(FALSE)
      [] kind = "ifelse" -> ifStatement(TRUE)
      [] kind = "while" -> whileStatement

RECURSIVE compoundStatementFrom(_, _, _)
\* The loop of compoundStatement over the statements that remain
compoundStatementFrom(leftASTNode, kinds, functionType) ==
    IF kinds = <<>> THEN StatementOk(leftASTNode)
    ELSE LET Rest(s) ==
                 IF s.status # "ok" THEN s
                 ELSE compoundStatementFrom(Glue(leftASTNode, s.tree), Tail(kinds),
                                            functionType)
         IN  Rest(singleStatement(Head(kinds), functionType))

\* struct ASTnode *compoundStatement(void); "{ }" is a syntax error because
\* singleStatement is called before '}' is looked for
compoundStatement(kinds, functionType) ==
    IF kinds = <<>> THEN StatementFatal
    ELSE compoundStatementFrom(NULL, kinds, functionType)

\* forStatement gluing the post-operation in front of the body
forStatement_postBeforeBody(preKind, postKind, bodyKinds, functionType) ==
    LET For(preOperationAST, postOperationAST, bodyAST) ==
            IF preOperationAST.status # "ok" THEN preOperationAST
            ELSE IF postOperationAST.status # "ok" THEN postOperationAST
            ELSE IF bodyAST.status # "ok" THEN bodyAST
            ELSE StatementOk(
                     makeASTNode("A_GLUE", P_NONE, preOperationAST.tree, NULL,
                         makeASTNode("A_WHILE", P_NONE, conditionAST, NULL,
                             makeASTNode("A_GLUE", P_NONE, postOperationAST.tree,
                                         NULL, bodyAST.tree, 0),
                             0),
                         0))
    IN  For(singleStatement(preKind, functionType),
            singleStatement(postKind, functionType),
            compoundStatement(bodyKinds, functionType))

\* forStatement: for (pre; i < j; post) body, where pre and post are read by
\* singleStatement and the body by compoundStatement; the statements inside
\* are of the kinds above, which have no for among them
forStatement(preKind, postKind, bodyKinds, functionType) ==
    LET For(preOperationAST, postOperationAST, bodyAST) ==
            IF preOperationAST.status # "ok" THEN preOperationAST
            ELSE IF postOperationAST.status # "ok" THEN postOperationAST
            ELSE IF bodyAST.status # "ok" THEN bodyAST
            ELSE StatementOk(
                     makeASTNode("A_GLUE", P_NONE, preOperationAST.tree, NULL,
                         makeASTNode("A_WHILE", P_NONE, conditionAST, NULL,
                             makeASTNode("A_GLUE", P_NONE, bodyAST.tree, NULL,
                                         postOperationAST.tree, 0),
                             0),
                         0))
    IN  For(singleStatement(preKind, functionType),
            singleStatement(postKind, functionType),
            compoundStatement(bodyKinds, functionType))

\* The number of statements of the body that have a tree
TopLevelStatements(kinds) ==
    Cardinality({k \in DOMAIN kinds : kinds[k] # "declaration"})

\* functionDeclaration writes "missing return statement" to stderr
MissingReturn(type, treeNode) ==
    /\ type # P_VOID
    /\ LET finalStatementNode == IF treeNode.op = "A_GLUE" THEN treeNode.right
                                 ELSE treeNode
       IN  IsNull(finalStatementNode) \/ finalStatementNode.op # "A_RETURN"

\* No register pool function was called yet
NoRegCall == [fn |-> "none", r |-> NOREG, before |-> <<>>, result |-> NOREG]

GenIdle ==
    /\ genPc = "idle"
    /\ freeRegisters = <<>>
    /\ labelId = 1
    /\ CurrentFunctionSymbolID = 0
    /\ functionsCompiled = 0
    /\ lastFunction = [compiled |-> FALSE, ops |-> <<>>, statementsRead |-> 0]
    /\ regCall = NoRegCall
    /\ labelsReturned = <<>>

\* Top-level statements in the input file, over all its function bodies
MaxStatements == 3

\* Names of the functions the input defines, in the order it defines them;
\* they follow the three built-in names
FunctionNames == {MaxNames + 1, MaxNames + 2}

\* The name of the next function definition of the input, if there is one:
\* a name not used before, taken in order, or a name defined earlier.  The
\* input holds as many definitions as there are names.
NextFunctionName(name) ==
    /\ name \in FunctionNames
    /\ functionsCompiled < Cardinality(FunctionNames)
    /\ \A other \in FunctionNames : other < name => findGlobalSymbol(other) # -1

\* The bodies a function definition can have when the input has room for
\* the given number of further statements
FunctionBodies(room) == UNION {[1..n -> StatementKinds] : n \in 0..room}

(***************************************************************************)
(* scan.c.  A character is a one-character string; "EOF" is the value      *)
(* fgetc returns at the end of the file (-1) and "NUL" the character 0.    *)
(* Token kinds are strings holding the name of the T_ enumerator.  The     *)
(* scanner functions work on the record [Infile, Putback, Line, Text] of   *)
(* the globals they read and write; its field c is the character the last  *)
(* function returned, value the integer scanInteger returned and status    *)
(* "fatal" once exit(1) was called.  The input holds no quote character,   *)
(* so the character and string literal cases of scan are not entered.      *)
(***************************************************************************)
TEXTLEN == 512

isdigit(c) == c \in {"0", "1", "2", "3", "4", "5", "6", "7", "8", "9"}

isalpha(c) ==
    c \in {"a", "b", "c", "d", "e", "f", "g", "h", "i", "j", "k", "l", "m",
           "n", "o", "p", "q", "r", "s", "t", "u", "v", "w", "x", "y", "z",
           "A", "B", "C", "D", "E", "F", "G", "H", "I", "J", "K", "L", "M",
           "N", "O", "P", "Q", "R", "S", "T", "U", "V", "W", "X", "Y", "Z"}

\* static int chrpos(char *s, int c): strchr finds the terminating 0 of s
\* when c is 0
chrpos(s, c) ==
    IF c = "NUL" THEN Len(s)
    ELSE IF \E p \in DOMAIN s : s[p] = c
    THEN (CHOOSE p \in DOMAIN s : s[p] = c /\ \A q \in 1..(p - 1) : s[q] # c) - 1
    ELSE -1

\* static int next(void); a Putback of 0 is no putback
next(s) ==
    IF s.Putback # "NUL" THEN [s EXCEPT !.c = s.Putback, !.Putback = "NUL"]
    ELSE IF s.Infile = <<>> THEN [s EXCEPT !.c = "EOF"]
    ELSE [s EXCEPT !.c = Head(s.Infile), !.Infile = Tail(s.Infile),
                   !.Line = IF Head(s.Infile) = "\n" THEN @ + 1 ELSE @]

\* static void putback(int c)
putback(s, c) == [s EXCEPT !.Putback = c]

RECURSIVE skip(_)
\* static int skip(void)
skip(s) ==
    LET t == next(s)
    IN  IF t.c \in {" ", "\t", "\n", "\r", "\f"} THEN skip(t) ELSE t

RECURSIVE scanInteger(_, _, _)
\* static int scanInteger(int c), with the value accumulated so far; the
\* inputs are too short for the int to overflow
scanInteger(s, c, value) ==
    LET k == chrpos(<<"0", "1", "2", "3", "4", "5", "6", "7", "8", "9">>, c)
        t == next(s)
    IN  IF k >= 0 THEN scanInteger(t, t.c, value * 10 + k)
        ELSE [putback(s, c) EXCEPT !.value = value]

RECURSIVE scanIdentifier(_, _, _, _)
\* static int scanIdentifier(int c, char *buf, int lengthLimit), with buf
\* as filled so far
scanIdentifier(s, c, buf, lengthLimit) ==
    LET t == next(s)
    IN  IF isalpha(c) \/ isdigit(c) \/ c = "_"
        THEN IF lengthLimit - 1 = Len(buf) THEN [s EXCEPT !.status = "fatal"]
             ELSE scanIdentifier(t, t.c, Append(buf, c), lengthLimit)
        ELSE [putback(s, c) EXCEPT !.Text = buf]

\* static int keyword(char *s); "0" is the 0 returned for no keyword
keyword(s) ==
    CASE s = <<"c", "h", "a", "r">> -> "T_CHAR"
      [] s = <<"e", "l", "s", "e">> -> "T_ELSE"
      [] s = <<"f", "o", "r">> -> "T_FOR"
      [] s = <<"i", "f">> -> "T_IF"
      [] s = <<"i", "n", "t">> -> "T_INT"
      [] s = <<"l", "o", "n", "g">> -> "T_LONG"
      [] s = <<"r", "e", "t", "u", "r", "n">> -> "T_RETURN"
      [] s = <<"w", "h", "i", "l", "e">> -> "T_WHILE"
      [] s = <<"v", "o", "i", "d">> -> "T_VOID"
      [] OTHER -> "0"

\* void rejectToken(struct token *t) with t = &Token, given the value of the
\* static RejectToken: the new value, and "fatal" when exit(1) was called
rejectToken_overwrite(pending) == [RejectToken |-> "&Token", status |-> "ok"]

rejectToken(pending) ==
    IF pending # "NULL" THEN [RejectToken |-> pending, status |-> "fatal"]
    ELSE [RejectToken |-> "&Token", status |-> "ok"]

\* bool scan(struct token *t) from "c = skip()" on: the scanner record, the
\* token slot, the value returned, and first, the character the token
\* begins with
scanToken(s0, t) ==
    LET s == skip(s0)
        c == s.c
        n == next(s)
        Found(state, kind) ==
            [s |-> state, Token |-> [t EXCEPT !.token = kind], result |-> TRUE,
             status |-> state.status, replayed |-> FALSE, first |-> c]
        Pair(second, both, alone) ==
            IF n.c = second THEN Found(n, both) ELSE Found(putback(n, n.c), alone)
        Triple(second, both, third, shift, alone) ==
            IF n.c = second THEN Found(n, both)
            ELSE IF n.c = third THEN Found(n, shift)
            ELSE Found(putback(n, n.c), alone)
        number == scanInteger(s, c, 0)
        word == scanIdentifier(s, c, <<>>, TEXTLEN)
    IN  CASE c = "EOF" -> [Found(s, "T_EOF") EXCEPT !.result = FALSE]
          [] c = "+" -> Pair("+", "T_INCREMENT", "T_PLUS")
          [] c = "-" -> Pair("-", "T_DECREMENT", "T_MINUS")
          [] c = "*" -> Found(s, "T_STAR")
          [] c = "/" -> Found(s, "T_SLASH")
          [] c = ";" -> Found(s, "T_SEMICOLON")
          [] c = "{" -> Found(s, "T_LBRACE")
          [] c = "}" -> Found(s, "T_RBRACE")
          [] c = "(" -> Found(s, "T_LPARENTHESIS")
          [] c = ")" -> Found(s, "T_RPARENTHESIS")
          [] c = "[" -> Found(s, "T_LBRACKET")
          [] c = "]" -> Found(s, "T_RBRACKET")
          [] c = "~" -> Found(s, "T_LOGICALINVERT")
          [] c = "^" -> Found(s, "T_BITWISEXOR")
          [] c = "=" -> Pair("=", "T_EQ", "T_ASSIGN")
          [] c = "!" -> Pair("=", "T_NE", "T_LOGICALNOT")
          [] c = "<" -> Triple("=", "T_LE", "<", "T_LSHIFT", "T_LT")
          [] c = ">" -> Triple("=", "T_GE", ">", "T_RSHIFT", "T_GT")
          [] c = "&" -> Pair("&", "T_LOGICALAND", "T_AMPERSAND")
          [] c = "|" -> Pair("|", "T_LOGICALOR", "T_BITWISEOR")
          [] isdigit(c) ->
                [Found(number, "T_INTEGERLITERAL") EXCEPT
                    !.Token.intvalue = number.value]
          [] isalpha(c) \/ c = "_" ->
                Found(word, IF keyword(word.Text) # "0" THEN keyword(word.Text)
                            ELSE "T_IDENTIFIER")
          [] OTHER -> Found([s EXCEPT !.status = "fatal"], t.token)

\* The replay of the rejected token losing the character that was put back
ReplayToken_dropsPutback(s0, t) ==
    [s |-> [s0 EXCEPT !.Putback = "NUL"], Token |-> t, result |-> TRUE,
     status |-> "ok", replayed |-> TRUE, first |-> "NUL"]

\* What scan does with a pending rejected token: *t = *RejectToken with both
\* pointing at Token, and nothing is read
ReplayToken(s0, t) ==
    [s |-> s0, Token |-> t, result |-> TRUE, status |-> "ok", replayed |-> TRUE,
     first |-> "NUL"]

scan_trueAtEOF(s0, t, pending) ==
    IF pending # "NULL" THEN ReplayToken(s0, t)
    ELSE [scanToken(s0, t) EXCEPT !.result = TRUE]

\* bool scan(struct token *t) with t = &Token, given the value of RejectToken
scan(s0, t, pending) ==
    IF pending # "NULL" THEN ReplayToken(s0, t) ELSE scanToken(s0, t)

\* The scanner is not running
ScanIdle ==
    /\ Infile = <<>>
    /\ Putback = "NUL"
    /\ Line = 0
    /\ Text = <<>>
    /\ Token = [token |-> "T_EOF", intvalue |-> 0]
    /\ RejectToken = "NULL"
    /\ scanPc = "idle"
    /\ scanCall = [fn |-> "none", rejects |-> 0]
    /\ scanLog = <<>>

(***************************************************************************)
(* Specification SpecSym: the declarations of an input reach the table as  *)
(* a sequence of addGlobalSymbol and addLocalSymbol calls.                 *)
(***************************************************************************)
InitSym ==
    /\ CurrentTarget \in Targets
    /\ exitStatus = Running
    /\ errorReported = FALSE
    /\ TypesIdle
    /\ SymIdle
    /\ ScanIdle
    /\ genCall = <<>>
    /\ ExprIdle
    /\ GenIdle

\* The declarations of the input: the name with the lowest number is first
\* declared as a function and as a long local, the others as int variables;
\* a name that is declared again may come back as either kind
DeclareGlobal ==
    \E name \in Names, kind \in {"S_VARIABLE", "S_FUNCTION"} :
        /\ exitStatus = Running
        /\ findGlobalSymbol(name) = -1 => kind = IF name = 1 THEN "S_FUNCTION" ELSE "S_VARIABLE"
        /\ addGlobalSymbol(name, P_INT, kind, IF kind = "S_FUNCTION" THEN name ELSE 0, 0)
        /\ ExitIf(addGlobalSymbolFatal(name))
        /\ UNCHANGED <<CurrentTarget, typeVars, exprVars, genVars, scanVars, genCall>>

DeclareLocal ==
    \E name \in Names, type \in {P_INT, P_LONG} :
        /\ exitStatus = Running
        /\ type = IF name = 1 THEN P_LONG ELSE P_INT
        /\ addLocalSymbol(name, type, "S_VARIABLE", 0, 0)
        /\ ExitIf(addLocalSymbolFatal(name))
        /\ UNCHANGED <<CurrentTarget, typeVars, exprVars, genVars, scanVars, genCall>>

NextSym == DeclareGlobal \/ DeclareLocal

SpecSym == InitSym /\ [][NextSym]_vars

\* C3: an insertion of a new name (global or local) attempted when no free
\* slot remains is fatal: the compilation ends with nonzero status instead of
\* storing the entry.
C3_InsertWhenFullIsFatal ==
    (symCall.fn \in {"addGlobalSymbol", "addLocalSymbol"}
        /\ ~symCall.present /\ symCall.full)
    => (exitStatus # Running /\ exitStatus # 0)

\* C13: while the compilation runs, every name inserted at slot k is found at
\* slot k by the lookup of its scope (findGlobalSymbol for a global,
\* findLocalSymbol for a local), whatever was inserted afterwards.
C13_LookupReturnsInsertionSlot ==
    exitStatus = Running =>
        \A e \in insertedAt :
            IF e.class = "C_GLOBAL"
            THEN findGlobalSymbol(e.name) = e.slot
            ELSE findLocalSymbol(e.name) = e.slot

\* C14: addGlobalSymbol called with a name already present among the globals
\* returns the slot of the existing entry, consumes no slot and leaves every
\* entry of the table as it was.
C14_ReaddingGlobalChangesNothing ==
    [][(symCall'.fn = "addGlobalSymbol" /\ symCall'.present)
        => /\ symCall'.result = findGlobalSymbol(symCall'.name)
           /\ symCall'.result \in GlobalSlots
           /\ SymbolTable[symCall'.result].name = symCall'.name
           /\ SymbolTable' = SymbolTable
           /\ NextGlobalSymbolIndex' = NextGlobalSymbolIndex]_vars

\* A present global was added again with another structural kind than stored
C14_Witness ==
    /\ symCall.fn = "addGlobalSymbol"
    /\ symCall.present
    /\ exitStatus = Running
    /\ SymbolTable[symCall.result].name = symCall.name
    /\ SymbolTable[symCall.result].structuralType # symCall.structuralType

\* Slots holding an entry of the given storage class under the given name
EntriesOf(classType, name) ==
    {i \in 0..(NSYMBOLS - 1) :
        SymbolTable[i].class = classType /\ SymbolTable[i].name = name}

\* C15: findSymbol(name) returns the slot of a local entry whenever a local
\* entry of that name is in the table, the slot of a global entry when only a
\* global one is, and -1 only when there is neither.
C15_FindSymbolPrefersLocal ==
    exitStatus = Running =>
        \A n \in Names :
            /\ EntriesOf("C_LOCAL", n) # {}
                   => findSymbol(n) \in EntriesOf("C_LOCAL", n)
            /\ (EntriesOf("C_LOCAL", n) = {} /\ EntriesOf("C_GLOBAL", n) # {})
                   => findSymbol(n) \in EntriesOf("C_GLOBAL", n)
            /\ findSymbol(n) = -1
                   => (EntriesOf("C_LOCAL", n) = {} /\ EntriesOf("C_GLOBAL", n) = {})

\* C27: while the compilation runs the global region and the local region of
\* the table do not overlap (NextGlobalSymbolIndex <= NextLocalSymbolIndex + 1),
\* every slot of the global region holds a global entry and every slot of the
\* local region a local one, so no insertion has stored over an entry of the
\* other kind.
C27_RegionsAreDisjoint ==
    exitStatus = Running =>
        /\ NextGlobalSymbolIndex <= NextLocalSymbolIndex + 1
        /\ GlobalSlots \cap LocalSlots = {}
        /\ \A i \in GlobalSlots : SymbolTable[i].class = "C_GLOBAL"
        /\ \A i \in LocalSlots : SymbolTable[i].class = "C_LOCAL"

(***************************************************************************)
(* Specification SpecExpr: binexpr(0) parses one expression of the input.  *)
(***************************************************************************)
InitExpr ==
    /\ CurrentTarget \in Targets
    /\ exitStatus = Running
    /\ errorReported = FALSE
    /\ TypesIdle
    /\ SymIdle
    /\ ScanIdle
    /\ genCall = <<>>
    /\ GenIdle
    /\ exprInput \in ExprInputs
    /\ exprPc = "ready"
    /\ exprTree = NULL
    /\ exprAssignRejected = FALSE

\* binexpr(0) runs to its return, to exit(1), or into the null dereference at
\* makeASTNode(..., left->primitiveType, ...) after a failed assignment
\* coercion.  The dereference is undefined behaviour: the process is killed
\* by SIGSEGV (status 128 + 11), or the read yields some value and an ASSIGN
\* node is built from it.
ParseExpression ==
    /\ exprPc = "ready"
    /\ LET r == binexpr(1, 0)
       IN  /\ exprAssignRejected' = (r.status = "undefined")
           /\ CASE r.status = "ok" ->
                     /\ exprPc' = "parsed"
                     /\ exprTree' = r.tree
                     /\ UNCHANGED <<exitStatus, errorReported>>
                [] r.status = "fatal" ->
                     /\ exprPc' = "exited"
                     /\ exprTree' = NULL
                     /\ exitStatus' = 1
                     /\ errorReported' = TRUE
                [] OTHER ->
                     \/ /\ exprPc' = "killed"
                        /\ exprTree' = NULL
                        /\ exitStatus' = 128 + 11
                        /\ UNCHANGED errorReported
                     \/ /\ exprPc' = "undefined"
                        /\ \E garbage \in GarbageInts :
                              exprTree' = makeASTNode("A_ASSIGN", garbage, NULL,
                                                      NULL, r.tree, 0)
                        /\ UNCHANGED <<exitStatus, errorReported>>
    /\ UNCHANGED <<CurrentTarget, exprInput, typeVars, symVars, genVars, scanVars,
                   genCall>>

NextExpr == ParseExpression

SpecExpr == InitExpr /\ [][NextExpr]_vars

\* C29: for an array a of char, int or long and an index i of integer type,
\* a[i] parses to DEREFERENCE(ADD(a, i')) of the array's element type, where
\* i' is present: the index under a scale node carrying the element size when
\* that size exceeds 1, the index itself when the size is 1; an index that is
\* not of integer type is fatal.
C29_SubscriptIsDereferenceOfScaledSum ==
    LET isSubscript ==
            /\ Len(exprInput) = 5
            /\ exprInput[1].token = "T_IDENTIFIER"
            /\ exprInput[2].token = "T_LBRACKET"
            /\ exprInput[4].token = "T_RBRACKET"
            /\ exprInput[5].token = "T_SEMICOLON"
        id == findGlobalSymbolByText(exprInput[1].text)
        i == exprInput[3]
        indexType ==
            IF i.token = "T_INTEGERLITERAL"
            THEN (IF i.intvalue >= 0 /\ i.intvalue <= 255 THEN P_CHAR ELSE P_INT)
            ELSE GlobalSymbolTable[findGlobalSymbolByText(i.text)].primitiveType
        elementType == pointerToPrimitiveType(GlobalSymbolTable[id].primitiveType)
        elementSize == codegenGetPrimitiveTypeSize(CurrentTarget, elementType)
        IsIndex(n) ==
            /\ ~IsNull(n)
            /\ n.primitiveType = indexType
            /\ IF i.token = "T_INTEGERLITERAL"
               THEN n.op = "A_INTEGERLITERAL" /\ n.v = i.intvalue
               ELSE n.op = "A_IDENTIFIER" /\ n.v = findGlobalSymbolByText(i.text)
    IN  (/\ exprPc # "ready"
         /\ isSubscript
         /\ id # -1
         /\ GlobalSymbolTable[id].structuralType = "S_ARRAY") =>
            IF isIntegerType(indexType)
            THEN /\ exprPc = "parsed"
                 /\ exprTree.op = "A_DEREFERENCE"
                 /\ exprTree.primitiveType = elementType
                 /\ elementType \in {P_CHAR, P_INT, P_LONG}
                 /\ exprTree.left.op = "A_ADD"
                 /\ exprTree.left.left.op = "A_IDENTIFIER"
                 /\ exprTree.left.left.v = id
                 /\ ~IsNull(exprTree.left.right)
                 /\ IF elementSize > 1
                    THEN /\ exprTree.left.right.op = "A_SCALETYPE"
                         /\ exprTree.left.right.v = elementSize
                         /\ IsIndex(exprTree.left.right.left)
                    ELSE IsIndex(exprTree.left.right)
            ELSE exprPc = "exited" /\ exitStatus = 1

\* C1: an assignment whose right-hand side cannot be coerced to the left-hand
\* side's type is rejected through the fatal-error path: a diagnostic is
\* reported, the exit status is 1, and no ASSIGN node is built from the failed
\* coercion result.
C1_FailedAssignCoercionIsFatal ==
    exprAssignRejected =>
        (errorReported /\ exitStatus = 1 /\ IsNull(exprTree))

\* The precedence levels the specification lists for the binary operators
SpecPrecedence(tokentype) ==
    CASE tokentype = "T_ASSIGN" -> 10
      [] tokentype = "T_LOGICALOR" -> 20
      [] tokentype = "T_LOGICALAND" -> 30
      [] tokentype = "T_BITWISEOR" -> 40
      [] tokentype = "T_BITWISEXOR" -> 50
      [] tokentype = "T_AMPERSAND" -> 60
      [] tokentype \in {"T_EQ", "T_NE"} -> 70
      [] tokentype \in {"T_LT", "T_GT", "T_LE", "T_GE"} -> 80
      [] tokentype \in {"T_LSHIFT", "T_RSHIFT"} -> 90
      [] tokentype \in {"T_PLUS", "T_MINUS"} -> 100
      [] tokentype \in {"T_STAR", "T_SLASH"} -> 110

RECURSIVE Grouping(_)
\* The source-level grouping a tree stands for: coercion wrappers removed and
\* the swapped children of an assignment put back in source order.
Grouping(n) ==
    IF n.op \in {"A_WIDENTYPE", "A_SCALETYPE"} THEN Grouping(n.left)
    ELSE IF n.op = "A_ASSIGN"
    THEN [op |-> n.op, l |-> Grouping(n.right), r |-> Grouping(n.left)]
    ELSE IF n.op \in BinaryOps
    THEN [op |-> n.op, l |-> Grouping(n.left), r |-> Grouping(n.right)]
    ELSE IF n.op = "A_IDENTIFIER" THEN [leaf |-> GlobalSymbolTable[n.v].name]
    ELSE IF n.op = "A_INTEGERLITERAL" THEN [literal |-> n.v]
    ELSE [other |-> n.op]

OperandGrouping(tok) ==
    IF tok.token = "T_IDENTIFIER" THEN [leaf |-> tok.text]
    ELSE [literal |-> tok.intvalue]

\* (a OP1 b) OP2 c
LeftGrouped(in) ==
    [op |-> tokenToASTOperator(in[4].token),
     l |-> [op |-> tokenToASTOperator(in[2].token),
            l |-> OperandGrouping(in[1]), r |-> OperandGrouping(in[3])],
     r |-> OperandGrouping(in[5])]

\* a OP1 (b OP2 c)
RightGrouped(in) ==
    [op |-> tokenToASTOperator(in[2].token),
     l |-> OperandGrouping(in[1]),
     r |-> [op |-> tokenToASTOperator(in[4].token),
            l |-> OperandGrouping(in[3]), r |-> OperandGrouping(in[5])]]

\* C8: a OP1 b OP2 c is grouped a OP1 (b OP2 c) when prec(OP1) < prec(OP2) or
\* when the levels are equal and the operators are right-associative ('='),
\* and (a OP1 b) OP2 c when prec(OP1) > prec(OP2) or the levels are equal and
\* the operators are left-associative, with the levels 10..110 of the table.
C8_PrecedenceLaw ==
    (exprPc = "parsed" /\ exprInput \in ThreeOperandInputs) =>
        LET p1 == SpecPrecedence(exprInput[2].token)
            p2 == SpecPrecedence(exprInput[4].token)
        IN  Grouping(exprTree) =
                IF p1 < p2 \/ (p1 = p2 /\ exprInput[2].token = "T_ASSIGN")
                THEN RightGrouped(exprInput)
                ELSE LeftGrouped(exprInput)

\* i = j = k ; is parsed as i = (j = k)
C8_Witness ==
    /\ exprPc = "parsed"
    /\ exprInput = <<Ident("i"), Tk("T_ASSIGN"), Ident("j"), Tk("T_ASSIGN"),
                     Ident("k"), Tk("T_SEMICOLON")>>
    /\ exprTree.op = "A_ASSIGN"
    /\ exprTree.left.op = "A_ASSIGN"
    /\ exprTree.right.op = "A_IDENTIFIER"

\* The operand as written in the source: the node under a coercion wrapper
SourceOperand(n) ==
    IF n.op \in {"A_WIDENTYPE", "A_SCALETYPE"} THEN n.left ELSE n

\* The integer type of greater size (char 1, int 4, long 8)
WiderType(t1, t2) ==
    IF primitiveSizeInBytes[t1 + 1] >= primitiveSizeInBytes[t2 + 1] THEN t1 ELSE t2

ResultTypeOk(n) ==
    LET lt == SourceOperand(n.left).primitiveType
        rt == SourceOperand(n.right).primitiveType
    IN  /\ (isIntegerType(lt) /\ isIntegerType(rt)) =>
               n.primitiveType = WiderType(lt, rt)
        /\ (isPointerType(lt) /\ isIntegerType(rt)) => n.primitiveType = lt
        /\ (isIntegerType(lt) /\ isPointerType(rt)) => n.primitiveType = rt

RECURSIVE ResultTypesOk(_)
\* The ADD under a DEREFERENCE is the one arrayAccess builds, not binexpr
\* (prefix refuses '*' on a sum), so the walk passes on to its operands.
ResultTypesOk(n) ==
    \/ IsNull(n)
    \/ /\ n.op \in BinaryOps => ResultTypeOk(n)
       /\ IF n.op = "A_DEREFERENCE" /\ n.left.op = "A_ADD"
          THEN ResultTypesOk(n.left.left) /\ ResultTypesOk(n.left.right)
          ELSE ResultTypesOk(n.left)
       /\ ResultTypesOk(n.middle)
       /\ ResultTypesOk(n.right)

\* C10: every non-assignment binary node binexpr builds has the wider of its
\* operands' types when both are integers, and the pointer operand's type
\* when one operand is a pointer and the other an integer, whichever side
\* the pointer is on.
C10_BinaryResultType ==
    exprPc = "parsed" => ResultTypesOk(exprTree)

\* 300 + p ; with p an int pointer: integer on the left, pointer on the right
C10_Witness ==
    /\ exprPc = "parsed"
    /\ exprInput = <<IntLit(BigLiteral), Tk("T_PLUS"), Ident("p"), Tk("T_SEMICOLON")>>
    /\ exprTree.op = "A_ADD"
    /\ exprTree.primitiveType = P_INTPTR
    /\ exprTree.left.op = "A_SCALETYPE"
    /\ SourceOperand(exprTree.left).primitiveType = P_INT

(***************************************************************************)
(* Specification SpecGen: main compiles a file of function definitions.    *)
(***************************************************************************)
InitGen ==
    /\ CurrentTarget \in Targets
    /\ exitStatus = Running
    /\ errorReported = FALSE
    /\ TypesIdle
    /\ SymIdle
    /\ ScanIdle
    /\ genCall = <<>>
    /\ ExprIdle
    /\ genPc = "start"
    /\ freeRegisters = PoolAtLoad(CurrentTarget)
    /\ labelId = 1
    /\ CurrentFunctionSymbolID = 0
    /\ functionsCompiled = 0
    /\ lastFunction = [compiled |-> FALSE, ops |-> <<>>, statementsRead |-> 0]
    /\ regCall = NoRegCall
    /\ labelsReturned = <<>>

\* main up to globalDeclaration: the three built-in functions are entered in
\* the symbol table and codegenPreamble resets the register pool
MainStart ==
    /\ genPc = "start"
    /\ genPc' = "declarations"
    /\ SymbolTable' =
           [i \in 0..(NSYMBOLS - 1) |->
               IF i < 3
               THEN [name |-> i + 1,
                     primitiveType |-> IF i = 2 THEN P_LONG ELSE P_CHAR,
                     structuralType |-> "S_FUNCTION", class |-> "C_GLOBAL",
                     endLabel |-> 0, size |-> 0, offset |-> 0]
               ELSE NoEntry]
    /\ NextGlobalSymbolIndex' = 3
    /\ declaredGlobals' = <<0, 1, 2>>
    /\ insertedAt' = {[class |-> "C_GLOBAL", name |-> i + 1, slot |-> i] : i \in 0..2}
    /\ symCall' = [fn |-> "addGlobalSymbol", name |-> 3,
                   structuralType |-> "S_FUNCTION", present |-> FALSE,
                   full |-> FALSE, result |-> 2]
    /\ freeRegisters' = [r \in DOMAIN freeRegisters |-> TRUE]
    /\ UNCHANGED <<sharedVars, typeVars, exprVars, NextLocalSymbolIndex, localOffset,
                   labelId, CurrentFunctionSymbolID, functionsCompiled, lastFunction,
                   regCall, labelsReturned, scanVars, genCall>>

\* functionDeclaration(type) after the symbol is entered, then codegenAST on
\* the tree it returns; functionType and endLabel are those of the symbol's
\* entry, which returnFromFunction and functionPostamble read.  The result
\* is the walk's final record, with parseFatal set when
\* exit(1) was called before the walk and missingReturn when the "missing
\* return statement" message was written
functionDeclaration(type, body, functionNameIndex, functionType, endLabel, insertFatal) ==
    LET noStatements == type # P_VOID /\ IsNull(body.tree)
        parseFatal == insertFatal \/ body.status # "ok" \/ noStatements
        tree == makeASTUnary("A_FUNCTION", type, body.tree, functionNameIndex)
        g0 == [free |-> freeRegisters, labelId |-> labelId + 1,
               status |-> "ok", reg |-> NOREG, functionType |-> functionType,
               endLabel |-> endLabel,
               nesting |-> 0, topLevelResets |-> 0, statementBeganBusy |-> FALSE,
               at |-> <<>>, ops |-> <<>>, code |-> <<>>, tree |-> tree,
               trace |-> <<[e |-> "getlabel", l |-> labelId, at |-> <<>>]>>,
               parseFatal |-> parseFatal,
               missingReturn |-> ~parseFatal /\ MissingReturn(type, body.tree)]
    IN  IF parseFatal THEN g0 ELSE codegenAST(tree, NOREG, NOREG, g0)

\* The values the calls of codegenGetLabelNumber in a walk returned, in order
LabelsOf(trace) ==
    LET calls == SelectSeq(trace, LAMBDA ev : ev.e = "getlabel")
    IN  [k \in 1..Len(calls) |-> calls[k].l]

\* One turn of globalDeclaration's loop on a function definition:
\* functionDeclaration(type), then codegenAST on the tree it returns.
CompileFunction ==
    /\ genPc = "declarations"
    /\ \E name \in {f \in FunctionNames : NextFunctionName(f)}, type \in {P_VOID, P_INT},
          kinds \in FunctionBodies(MaxStatements - lastFunction.statementsRead) :
        /\ addGlobalSymbol(name, type, "S_FUNCTION", labelId, 0)
        /\ \E functionType \in {IF addGlobalSymbolFatal(name) THEN type
                                ELSE SymbolTable'[symCall'.result].primitiveType} :
           \E body \in {compoundStatement(kinds, functionType)} :
           \E g \in {functionDeclaration(type, body, symCall'.result, functionType,
                          IF addGlobalSymbolFatal(name) THEN labelId
                          ELSE SymbolTable'[symCall'.result].endLabel,
                          addGlobalSymbolFatal(name))} :
            \E fatal \in {g.parseFatal \/ g.status # "ok"} :
               /\ CurrentFunctionSymbolID' =
                      IF addGlobalSymbolFatal(name) THEN CurrentFunctionSymbolID
                      ELSE symCall'.result
               /\ freeRegisters' = g.free
               /\ labelId' = g.labelId
               /\ errorReported' = (errorReported \/ fatal \/ g.missingReturn)
               /\ exitStatus' = IF fatal THEN 1 ELSE exitStatus
               /\ genPc' = IF fatal THEN "exited" ELSE genPc
               /\ functionsCompiled' = functionsCompiled + 1
               /\ lastFunction' =
                      IF fatal
                      THEN [compiled |-> FALSE, ops |-> g.ops,
                            statementsRead |-> lastFunction.statementsRead + Len(kinds)]
                      ELSE [compiled |-> TRUE, ops |-> g.ops, trace |-> g.trace,
                            tree |-> g.tree,
                            statementsRead |-> lastFunction.statementsRead + Len(kinds),
                            statements |-> TopLevelStatements(kinds),
                            topLevelResets |-> g.topLevelResets,
                            statementBeganBusy |-> g.statementBeganBusy]
               /\ labelsReturned' = labelsReturned \o LabelsOf(g.trace)
               /\ genCall' =
                      IF fatal THEN genCall
                      ELSE Append(genCall,
                               [n |-> NULL, function |-> name,
                                labels |-> SelectSeq(g.trace, LAMBDA ev :
                                    ev.e \in {"label", "jump", "compareAndJump"})])
    /\ UNCHANGED <<CurrentTarget, typeVars, exprVars, regCall, scanVars>>

\* globalDeclaration meets T_EOF after a declaration; main emits the
\* postamble, closes the files and returns 0
MainFinish ==
    /\ genPc = "declarations"
    /\ functionsCompiled >= 1
    /\ genPc' = "done"
    /\ exitStatus' = 0
    /\ UNCHANGED <<CurrentTarget, errorReported, typeVars, symVars, exprVars,
                   freeRegisters, labelId, CurrentFunctionSymbolID,
                   functionsCompiled, lastFunction, regCall, labelsReturned,
                   scanVars, genCall>>

NextGen == MainStart \/ CompileFunction \/ MainFinish

SpecGen == InitGen /\ [][NextGen]_vars

\* C4: whenever the generator begins emitting a statement (of a function
\* body, a then-branch, an else-branch or a loop body) every register of the
\* pool is free.
C4_StatementsBeginWithFreePool ==
    lastFunction.compiled => ~lastFunction.statementBeganBusy

C6_ReportedErrorEndsRun ==
    errorReported => (exitStatus # Running /\ exitStatus # 0)

\* C18: every two-operand backend operation of the walk (add, subtract,
\* multiply, signed divide, compare-and-set) is called with two distinct
\* registers that are both in use, frees exactly one of them and returns the
\* other, still in use; and once a function's last statement is generated no
\* register is left in use.
C18_TwoOperandDiscipline ==
    /\ \A i \in DOMAIN lastFunction.ops :
          LET o == lastFunction.ops[i]
          IN  /\ o.r1 # o.r2
              /\ o.r1 \in DOMAIN o.before /\ o.r2 \in DOMAIN o.before
              /\ ~o.before[o.r1] /\ ~o.before[o.r2]
              /\ o.result \in {o.r1, o.r2}
              /\ ~o.after[o.result]
              /\ \E freed \in {o.r1, o.r2} \ {o.result} :
                    o.after = [o.before EXCEPT ![freed] = TRUE]
    /\ lastFunction.compiled => \A r \in DOMAIN freeRegisters : freeRegisters[r]

\* C19: the label allocator returns 1 on its first call and one more than the
\* previous value on every later call, so no label is returned twice and
\* NOLABEL is never returned.
C19_LabelsCountUpFromOne ==
    \A i \in DOMAIN labelsReturned :
        /\ labelsReturned[i] = i
        /\ labelsReturned[i] # NOLABEL
        /\ \A j \in DOMAIN labelsReturned : j # i => labelsReturned[j] # labelsReturned[i]

\* Two functions were compiled and the second one holds an if with an else
C19_Witness ==
    /\ functionsCompiled = 2
    /\ lastFunction.compiled
    /\ Len(labelsReturned) >= 4
    /\ Len(LabelsOf(lastFunction.trace)) = 3

RECURSIVE IfNodes(_, _)
\* The places of the A_IF nodes of a tree, each with whether it has an else
IfNodes(n, path) ==
    IF IsNull(n) THEN {}
    ELSE (IF n.op = "A_IF" THEN {[at |-> path, else |-> ~IsNull(n.right)]} ELSE {})
         \cup IfNodes(n.left, Append(path, "left"))
         \cup IfNodes(n.middle, Append(path, "middle"))
         \cup IfNodes(n.right, Append(path, "right"))

\* What the walk did for the node at the given place, in order: its own steps
\* as <<step, label>>, and each run of steps inside one child as <<child, 0>>
StepsAt(trace, path) ==
    LET IsPrefix(p, q) == Len(p) <= Len(q) /\ SubSeq(q, 1, Len(p)) = p
        under == SelectSeq(trace, LAMBDA ev : IsPrefix(path, ev.at))
        Step(i) == IF under[i].at = path THEN <<under[i].e, under[i].l>>
                   ELSE <<under[i].at[Len(path) + 1], NOLABEL>>
        Kept(i) == under[i].at = path \/ i = 1 \/ Step(i) # Step(i - 1)
        kept == SelectSeq([i \in 1..Len(under) |-> i], Kept)
    IN  [k \in 1..Len(kept) |-> Step(kept[k])]

\* Every IF node of the last function was generated in the order the
\* specification lists, or in that order with the reset the code does after
\* the else-branch; its two labels are distinct and come from the allocator,
\* and the condition jumps to Lfalse
IfOrder(resetAfterElse) ==
    LET IfSteps(Lfalse, Lend, withElse) ==
            <<<<"getlabel", Lfalse>>>>
            \o (IF withElse THEN <<<<"getlabel", Lend>>>> ELSE <<>>)
            \o <<<<"left", NOLABEL>>, <<"reset", NOLABEL>>, <<"middle", NOLABEL>>,
                 <<"reset", NOLABEL>>>>
            \o (IF withElse
                THEN <<<<"jump", Lend>>, <<"label", Lfalse>>, <<"right", NOLABEL>>>>
                     \o (IF resetAfterElse THEN <<<<"reset", NOLABEL>>>> ELSE <<>>)
                     \o <<<<"label", Lend>>>>
                ELSE <<<<"label", Lfalse>>>>)
    IN  lastFunction.compiled =>
            \A node \in IfNodes(lastFunction.tree, <<>>) :
                LET steps == StepsAt(lastFunction.trace, node.at)
                    Lfalse == steps[1][2]
                    Lend == IF node.else THEN steps[2][2] ELSE NOLABEL
                IN  /\ Len(steps) >= 2
                    /\ steps = IfSteps(Lfalse, Lend, node.else)
                    /\ Lfalse # Lend
                    /\ Lfalse # NOLABEL
                    /\ node.else => Lend # NOLABEL
                    /\ \E k \in DOMAIN lastFunction.trace :
                          /\ lastFunction.trace[k].at = Append(node.at, "left")
                          /\ lastFunction.trace[k].e = "compareAndJump"
                          /\ lastFunction.trace[k].l = Lfalse

\* C20 as stated: for every IF node the walk does, in this order: the
\* condition with jump target Lfalse, a reset, the then-branch, a reset, a jump
\* to Lend only if there is an else-branch, the definition of Lfalse and, only
\* if there is an else-branch, the else-branch followed by the definition of
\* Lend; Lfalse and Lend are distinct fresh labels, Lend allocated only with
\* an else-branch.
C20_IfOrderAsStated == IfOrder(FALSE)

\* C20 amended: as stated, with a third register reset between the
\* else-branch and the definition of Lend.
C20_IfOrderWithResetAfterElse == IfOrder(TRUE)

\* A function holding an if with an else and an if without one was compiled
C20_Witness ==
    /\ lastFunction.compiled
    /\ \E a, b \in IfNodes(lastFunction.tree, <<>>) : a.else /\ ~b.else

\* C21: for every WHILE node the walk does, in this order: the definition of
\* Lstart, the condition with jump target Lend, a register reset, the loop
\* body, a register reset, a jump to Lstart and the definition of Lend; Lstart
\* and Lend are distinct and each is allocated by the node, not seen before.
C21_WhileOrder ==
    LET RECURSIVE NodeAt(_, _)
        NodeAt(n, path) ==
            IF path = <<>> \/ IsNull(n) THEN n ELSE NodeAt(n[Head(path)], Tail(path))
        Places(trace) ==
            UNION {{SubSeq(trace[k].at, 1, m) : m \in 0..Len(trace[k].at)} :
                      k \in DOMAIN trace}
        WhileSteps(Lstart, Lend) ==
            <<<<"getlabel", Lstart>>, <<"getlabel", Lend>>, <<"label", Lstart>>,
              <<"left", NOLABEL>>, <<"reset", NOLABEL>>, <<"right", NOLABEL>>,
              <<"reset", NOLABEL>>, <<"jump", Lstart>>, <<"label", Lend>>>>
        Fresh(trace, L) ==
            \E k \in DOMAIN trace :
                /\ trace[k].e = "getlabel" /\ trace[k].l = L
                /\ \A j \in 1..(k - 1) : trace[j].l # L
        Ordered(trace, path, steps) ==
            /\ Len(steps) >= 2
            /\ steps = WhileSteps(steps[1][2], steps[2][2])
            /\ steps[1][2] # steps[2][2]
            /\ steps[1][2] # NOLABEL /\ steps[2][2] # NOLABEL
            /\ Fresh(trace, steps[1][2]) /\ Fresh(trace, steps[2][2])
            /\ \E k \in DOMAIN trace :
                  /\ trace[k].at = Append(path, "left")
                  /\ trace[k].e = "compareAndJump"
                  /\ trace[k].l = steps[2][2]
    IN  lastFunction.compiled =>
            \A path \in Places(lastFunction.trace) :
                NodeAt(lastFunction.tree, path).op = "A_WHILE" =>
                    Ordered(lastFunction.trace, path,
                            StepsAt(lastFunction.trace, path))

\* A function holding a loop was compiled: its code jumps back to a label
\* written earlier
C21_Witness ==
    /\ lastFunction.compiled
    /\ \E i, j \in DOMAIN lastFunction.trace :
          /\ i < j
          /\ lastFunction.trace[i].e = "label"
          /\ lastFunction.trace[j].e = "jump"
          /\ lastFunction.trace[i].l = lastFunction.trace[j].l

\* C26: in the output of a compilation that ended without a fatal error every
\* label Ln is defined at most once and every jump or branch goes to a label
\* the output defines; each function's returns jump to that function's end
\* label, which its postamble defines and nothing else does.
C26_LabelsDefinedOnce ==
    (genPc = "done" /\ exitStatus = 0) =>
        LET Output == {<<f, k>> : f \in DOMAIN genCall, k \in 1..MaxStatements * 8}
            Written == {p \in Output : p[2] \in DOMAIN genCall[p[1]].labels}
            At(p) == genCall[p[1]].labels[p[2]]
            Definitions == {p \in Written : At(p).e = "label"}
            Jumps == {p \in Written : At(p).e \in {"jump", "compareAndJump"}}
        IN  /\ \A p, q \in Definitions : At(p).l = At(q).l => p = q
            /\ \A p \in Jumps : \E q \in Definitions : At(q).l = At(p).l
            /\ \A f \in DOMAIN genCall :
                  LET last == genCall[f].labels[Len(genCall[f].labels)]
                  IN  /\ last.e = "label" /\ last.at = <<>>
                      /\ \A p \in Definitions : At(p).l = last.l => p[1] = f

\* void nasmDeclareGlobalSymbol(int id) on the entry GlobalSymbolTable[id],
\* where elementSize is what nasmGetPrimitiveTypeSize returned: the align
\* directive and the res* directive with its operand.  The test against
\* LLONG_MAX / count is written on the product, which the tests before it
\* keep within an int.
nasmDeclareGlobalSymbol(entry, elementSize) ==
    LET INT_MAX == 2147483647
        nasmAlignPow2(n) == IF n >= 8 THEN 8 ELSE IF n >= 4 THEN 4
                            ELSE IF n >= 2 THEN 2 ELSE 1
        count == IF entry.structuralType = "S_ARRAY" THEN entry.size ELSE 1
        Reserve(totalBytesRequired) ==
            CASE elementSize = 1 -> [d |-> "resb", n |-> count]
              [] elementSize = 2 -> [d |-> "resw", n |-> count]
              [] elementSize = 4 -> [d |-> "resd", n |-> count]
              [] elementSize = 8 -> [d |-> "resq", n |-> count]
              [] OTHER -> [d |-> "resb", n |-> totalBytesRequired]
    IN  IF elementSize <= 0 THEN [status |-> "fatal", lines |-> <<>>]
        ELSE IF entry.structuralType = "S_ARRAY"
                /\ (count <= 0 \/ count > INT_MAX \div elementSize)
        THEN [status |-> "fatal", lines |-> <<>>]
        ELSE IF (((elementSize * count) \div 65536) \div 65536) \div 65536 >= 32768
        THEN [status |-> "fatal", lines |-> <<>>]
        ELSE [status |-> "ok",
              lines |-> <<[d |-> "align", n |-> nasmAlignPow2(elementSize)],
                          Reserve(elementSize * count)>>]

\* void aarch64DeclareGlobalSymbol(int id), likewise: .p2align with the
\* logarithm aarch64P2AlignFor gives, and .zero with the total
aarch64DeclareGlobalSymbol(entry, elementSize) ==
    LET INT_MAX == 2147483647
        alignment == IF elementSize >= 8 THEN 8 ELSE IF elementSize >= 4 THEN 4
                     ELSE IF elementSize >= 2 THEN 2 ELSE 1
        aarch64P2AlignFor(alignmentBytes) ==
            CASE alignmentBytes = 8 -> 3
              [] alignmentBytes = 4 -> 2
              [] alignmentBytes = 2 -> 1
              [] alignmentBytes = 1 -> 0
              [] OTHER -> 0 - 1
        Align(p2) == IF p2 >= 0 THEN <<[d |-> ".p2align", n |-> p2]>> ELSE <<>>
        count == IF entry.structuralType = "S_ARRAY" THEN entry.size ELSE 1
    IN  IF elementSize <= 0 THEN [status |-> "fatal", lines |-> <<>>]
        ELSE IF entry.structuralType = "S_ARRAY"
                /\ (count <= 0 \/ count > INT_MAX \div elementSize)
        THEN [status |-> "fatal", lines |-> <<>>]
        ELSE IF (((elementSize * count) \div 65536) \div 65536) \div 65536 >= 32768
        THEN [status |-> "fatal", lines |-> <<>>]
        ELSE [status |-> "ok",
              lines |-> Align(aarch64P2AlignFor(alignment))
                        \o <<[d |-> ".zero", n |-> elementSize * count]>>]

(***************************************************************************)
(* Specification SpecOps: one call into the generator.  Either the second  *)
(* switch of codegenAST on a comparison node or a scale node whose         *)
(* children have already been generated into registers that are in use, or *)
(* addGlobalSymbol on the first global of the input, which declares it, or *)
(* codegenAST on the tree of a for statement.                              *)
(***************************************************************************)
\* Largest payload of a scale node
MaxScale == 9

InitOps ==
    /\ CurrentTarget \in Targets
    /\ exitStatus = Running
    /\ errorReported = FALSE
    /\ TypesIdle
    /\ SymIdle
    /\ ExprIdle
    /\ ScanIdle
    /\ genCall = <<>>
    /\ genPc = "idle"
    /\ freeRegisters \in
           {pool \in [0..(PoolSize(CurrentTarget) - 1) -> BOOLEAN] :
               \/ Cardinality({r \in DOMAIN pool : ~pool[r]}) \in 1..2
               \/ \A r \in DOMAIN pool : ~pool[r]}
    /\ labelId = 1
    /\ CurrentFunctionSymbolID = 0
    /\ functionsCompiled = 0
    /\ lastFunction = [compiled |-> FALSE, ops |-> <<>>, statementsRead |-> 0]
    /\ regCall = NoRegCall
    /\ labelsReturned = <<>>

\* codegenAST(n, label, parentASTop) from its second switch on: n is a
\* comparison under an IF, a WHILE or an assignment, or a scale node under an
\* addition; leftRegister and rightRegister are what the walks of the children
\* returned (a scale node has no right child, and its case assigns
\* rightRegister before reading it)
GenerateNode ==
    /\ exitStatus = Running
    /\ genCall = <<>>
    /\ \E leftRegister \in {r \in DOMAIN freeRegisters : ~freeRegisters[r]} :
       \E input \in
               {[n |-> makeASTNode(op, P_INT, LiteralOne, NULL, LiteralOne, 0),
                 parentASTop |-> parent, label |-> label, rightRegister |-> right] :
                    op \in ComparisonOps, parent \in {"A_IF", "A_WHILE"},
                    label \in 1..2,
                    right \in {r \in DOMAIN freeRegisters :
                                  ~freeRegisters[r] /\ r # leftRegister}}
          \cup {[n |-> makeASTNode(op, P_INT, LiteralOne, NULL, LiteralOne, 0),
                 parentASTop |-> "A_ASSIGN", label |-> NOLABEL,
                 rightRegister |-> right] :
                    op \in ComparisonOps,
                    right \in {r \in DOMAIN freeRegisters :
                                  ~freeRegisters[r] /\ r # leftRegister}}
          \cup {[n |-> makeASTUnary("A_SCALETYPE", P_LONG, LiteralOne, size),
                 parentASTop |-> "A_ADD", label |-> NOLABEL,
                 rightRegister |-> NOREG] : size \in 2..MaxScale} :
       \E g \in {codegenOperation(input.n, input.label, input.parentASTop,
                                  leftRegister, input.rightRegister,
                                  [free |-> freeRegisters, status |-> "ok",
                                   reg |-> NOREG, ops |-> <<>>, code |-> <<>>,
                                   trace |-> <<>>, at |-> <<>>])} :
          /\ genCall' = <<[n |-> input.n, parentASTop |-> input.parentASTop,
                            label |-> input.label, leftRegister |-> leftRegister,
                            rightRegister |-> input.rightRegister,
                            before |-> freeRegisters, status |-> g.status,
                            code |-> g.code, ops |-> g.ops, result |-> g.reg]>>
          /\ freeRegisters' = g.free
          /\ exitStatus' = IF g.status = "ok" THEN exitStatus ELSE 1
          /\ errorReported' = (errorReported \/ g.status # "ok")
    /\ UNCHANGED <<CurrentTarget, typeVars, symVars, exprVars, genPc, labelId,
                   CurrentFunctionSymbolID, functionsCompiled, lastFunction,
                   regCall, labelsReturned, scanVars>>

\* addGlobalSymbol(name, type, structuralType, 0, size) for a scalar or an
\* array, up to and including its call of codegenDeclareGlobalSymbol; the
\* AArch64 size table has no element for P_LONGPTR, so that size is whatever
\* lies behind the table
DeclareGlobalSymbol ==
    /\ exitStatus = Running
    /\ genCall = <<>>
    /\ \E type \in {P_VOID, P_CHAR, P_INT, P_LONG, P_CHARPTR, P_LONGPTR},
          declared \in {[structuralType |-> "S_VARIABLE", size |-> 1]}
                       \cup {[structuralType |-> "S_ARRAY", size |-> size] :
                                size \in {0 - 1, 0, 1, 3, 268435455, 268435456,
                                          536870911, 536870912, 2147483647}} :
        /\ addGlobalSymbol(1, type, declared.structuralType, 0, declared.size)
        /\ \E elementSize \in
                 (IF SizeQueryInTable(CurrentTarget, type)
                  THEN {codegenGetPrimitiveTypeSize(CurrentTarget, type)}
                  ELSE GarbageInts) :
           \E out \in {IF CurrentTarget = TARGET_NASM
                       THEN nasmDeclareGlobalSymbol(SymbolTable'[symCall'.result],
                                                    elementSize)
                       ELSE aarch64DeclareGlobalSymbol(
                                SymbolTable'[symCall'.result], elementSize)} :
              /\ genCall' = <<[n |-> NULL, entry |-> SymbolTable'[symCall'.result],
                               elementSize |-> elementSize, status |-> out.status,
                               lines |-> out.lines]>>
              /\ ExitIf(out.status # "ok")
    /\ UNCHANGED <<CurrentTarget, typeVars, exprVars, genVars, scanVars>>

\* codegenAST on the tree forStatement returns for a for statement that is
\* the whole body of an int function
GenerateFor ==
    /\ exitStatus = Running
    /\ genCall = <<>>
    /\ \E preKind \in {"declaration", "assignment"},
          postKind \in {"assignment", "arithmetic"},
          bodyKinds \in {<<"assignment">>, <<"arithmetic", "assignment">>,
                         <<"declaration">>} :
       \E parsed \in {[pre |-> singleStatement(preKind, P_INT),
                        post |-> singleStatement(postKind, P_INT),
                        body |-> compoundStatement(bodyKinds, P_INT),
                        for |-> forStatement(preKind, postKind, bodyKinds, P_INT)]} :
       \E g \in {codegenAST(parsed.for.tree, NOLABEL, "A_FUNCTION",
                            [free |-> freeRegisters, labelId |-> labelId,
                             status |-> "ok", reg |-> NOREG,
                             functionType |-> P_INT, nesting |-> 0,
                             topLevelResets |-> 0, statementBeganBusy |-> FALSE,
                             at |-> <<>>, ops |-> <<>>, code |-> <<>>,
                             trace |-> <<>>])} :
          /\ genCall' = <<[n |-> parsed.for.tree, pre |-> parsed.pre.tree,
                           post |-> parsed.post.tree, body |-> parsed.body.tree,
                           status |-> g.status, trace |-> g.trace]>>
          /\ freeRegisters' = g.free
          /\ labelId' = g.labelId
          /\ ExitIf(g.status # "ok")
    /\ UNCHANGED <<CurrentTarget, typeVars, symVars, exprVars, genPc,
                   CurrentFunctionSymbolID, functionsCompiled, lastFunction,
                   regCall, labelsReturned, scanVars>>

SpecOps == InitOps /\ [][GenerateNode \/ DeclareGlobalSymbol \/ GenerateFor]_vars

\* C24: for (pre; cond; post) body is parsed into the tree
\* GLUE(pre, WHILE(cond, GLUE(body, post))), and in the code generated from it
\* pre is emitted once, before the loop's start label, and post after the
\* body and before the jump back to the start label.
C24_ForIsGlueWhileGlue ==
    LET IsPrefix(p, q) == Len(p) <= Len(q) /\ SubSeq(q, 1, Len(p)) = p
        Under(trace, path) == {k \in DOMAIN trace : IsPrefix(path, trace[k].at)}
        At(trace, e) == {k \in DOMAIN trace : trace[k].at = <<"right">>
                                              /\ trace[k].e = e}
        Desugared(call) ==
            call.n = makeASTNode("A_GLUE", P_NONE, call.pre, NULL,
                         makeASTNode("A_WHILE", P_NONE, conditionAST, NULL,
                             makeASTNode("A_GLUE", P_NONE, call.body, NULL,
                                         call.post, 0),
                             0),
                         0)
        Emitted(trace) ==
            /\ At(trace, "jump") # {}
            /\ Under(trace, <<"right", "right", "right">>) # {}
            /\ StepsAt(trace, <<>>) \in
                   {<<<<"left", NOLABEL>>, <<"reset", NOLABEL>>,
                      <<"right", NOLABEL>>, <<"reset", NOLABEL>>>>,
                    <<<<"reset", NOLABEL>>, <<"right", NOLABEL>>,
                      <<"reset", NOLABEL>>>>}
            /\ \A jump \in At(trace, "jump") :
               \E start \in At(trace, "label") :
                  /\ trace[start].l = trace[jump].l
                  /\ start < jump
                  /\ \A k \in Under(trace, <<"left">>) : k < start
                  /\ \A k \in Under(trace, <<"right", "right", "right">>) :
                        /\ start < k /\ k < jump
                        /\ \A b \in Under(trace, <<"right", "right", "left">>) :
                              start < b /\ b < k
    IN  \A i \in DOMAIN genCall :
            "post" \in DOMAIN genCall[i] =>
                /\ Desugared(genCall[i])
                /\ genCall[i].status = "ok" => Emitted(genCall[i].trace)

\* for (i = 1; i < j; i = i + j * k - j / k < k) { i = 1; } was generated
C24_Witness ==
    \E i \in DOMAIN genCall :
        /\ "post" \in DOMAIN genCall[i]
        /\ genCall[i].status = "ok"
        /\ genCall[i].pre = assignmentStatement.tree
        /\ genCall[i].post = arithmeticStatement.tree
        /\ genCall[i].body = assignmentStatement.tree

C23_StorageIsSizeTimesCount ==
    LET Reserved(line) ==
            CASE line.d = "resb" -> line.n
              [] line.d = "resw" -> 2 * line.n
              [] line.d = "resd" -> 4 * line.n
              [] line.d = "resq" -> 8 * line.n
              [] line.d = ".zero" -> line.n
        Alignment(line) ==
            CASE line.d = "align" -> line.n
              [] line.d = ".p2align" -> 2^line.n
              [] OTHER -> 1
        LargestPowerOfTwo(s) ==
            CHOOSE a \in {1, 2, 4, 8} :
                a <= s /\ \A b \in {1, 2, 4, 8} : b <= s => b <= a
        Stored(lines, s, c) ==
            /\ Reserved(lines[Len(lines)]) % s = 0
            /\ Reserved(lines[Len(lines)]) \div s = c
            /\ Alignment(lines[1]) = LargestPowerOfTwo(s)
    IN  \A i \in DOMAIN genCall :
            ("entry" \in DOMAIN genCall[i] /\ genCall[i].status = "ok") =>
                Stored(genCall[i].lines,
                       primitiveSizeInBytes[genCall[i].entry.primitiveType + 1],
                       IF genCall[i].entry.structuralType = "S_ARRAY"
                       THEN genCall[i].entry.size ELSE 1)

\* Width of a register in the checks of the values the emitted code computes;
\* the registers of both backends are 64 bits wide and every instruction
\* used here keeps the low bits of its result
RegisterBits == 6

\* C30: the code written for a SCALETYPE node with payload s leaves the
\* child's value times s in the register the node returns: for s = 2, 4, 8 one
\* left shift of the child's register by 1, 2, 3, for any other s a load of s
\* into a new register and a multiplication into it; both forms give the same
\* value.
C30_ScaleMultipliesBySize ==
    LET Word == 2^RegisterBits
        Step(regs, ins) ==
            CASE ins.op = "shl" -> [regs EXCEPT ![ins.reg] = (@ * 2^ins.by) % Word]
              [] ins.op = "mov" -> [regs EXCEPT ![ins.reg] = ins.imm % Word]
              [] ins.op = "mul" ->
                   [regs EXCEPT ![ins.dst] = (@ * regs[ins.src]) % Word]
        Run(code, regs) ==
            IF Len(code) = 1 THEN Step(regs, code[1])
            ELSE Step(Step(regs, code[1]), code[2])
        Scaled(call, v) ==
            Run(call.code, [r \in DOMAIN call.before |->
                               IF r = call.leftRegister THEN v ELSE Word - 1])
                [call.result] = (v * call.n.v) % Word
        Shifted(call, shiftAmount) ==
            /\ call.code = <<[op |-> "shl", reg |-> call.leftRegister,
                              by |-> shiftAmount]>>
            /\ call.result = call.leftRegister
        Multiplied(call) ==
            /\ Len(call.code) = 2
            /\ call.code[1].op = "mov" /\ call.code[1].imm = call.n.v
            /\ call.code[1].reg # call.leftRegister
            /\ call.code[2] = [op |-> "mul", dst |-> call.code[1].reg,
                               src |-> call.leftRegister]
            /\ call.result = call.code[1].reg
        Shaped(call) ==
            CASE call.n.v = 2 -> Shifted(call, 1)
              [] call.n.v = 4 -> Shifted(call, 2)
              [] call.n.v = 8 -> Shifted(call, 3)
              [] OTHER -> Multiplied(call)
    IN  \A i \in DOMAIN genCall :
            (genCall[i].n.op = "A_SCALETYPE" /\ genCall[i].status = "ok") =>
                /\ Shaped(genCall[i])
                /\ \A v \in 0..(Word - 1) : Scaled(genCall[i], v)

\* A scale node with payload 3 was generated by load and multiply
C30_Witness ==
    \E i \in DOMAIN genCall :
        /\ genCall[i].n.op = "A_SCALETYPE"
        /\ genCall[i].n.v = 3
        /\ genCall[i].status = "ok"
        /\ genCall[i].result # genCall[i].leftRegister

(***************************************************************************)
(* Specification SpecScan: main has set Line and Putback and the parser    *)
(* calls scan(&Token) until it returns false, rejecting the token it just  *)
(* got now and then.                                                       *)
(***************************************************************************)
\* Characters in the input file
MaxInput == 3

\* Calls of rejectToken in one run
MaxRejects == 2

InitScan ==
    /\ CurrentTarget \in Targets
    /\ exitStatus = Running
    /\ errorReported = FALSE
    /\ TypesIdle
    /\ SymIdle
    /\ ExprIdle
    /\ GenIdle
    /\ Infile \in UNION {[1..n -> {" ", "\n", "+", ";", "1", "2", "i", "f", "@", "NUL"}] :
                            n \in 0..MaxInput}
    /\ Putback = "\n"
    /\ Line = 1
    /\ Text = <<>>
    /\ Token = [token |-> "T_EOF", intvalue |-> 0]
    /\ RejectToken = "NULL"
    /\ scanPc = "scanning"
    /\ scanCall = [fn |-> "none", rejects |-> 0]
    /\ scanLog = <<>>
    /\ genCall = <<>>

\* The globals the scanner functions read and write
ScannerState ==
    [Infile |-> Infile, Putback |-> Putback, Line |-> Line, Text |-> Text,
     c |-> "NUL", value |-> 0, status |-> "ok"]

\* scan(&Token)
Scan ==
    /\ exitStatus = Running
    /\ scanPc = "scanning"
    /\ \E r \in {scan(ScannerState, Token, RejectToken)} :
        /\ Infile' = r.s.Infile
        /\ Putback' = r.s.Putback
        /\ Line' = r.s.Line
        /\ Text' = r.s.Text
        /\ Token' = r.Token
        /\ RejectToken' = "NULL"
        /\ scanCall' = [scanCall EXCEPT !.fn = "scan"]
        /\ scanLog' = IF r.status = "fatal" THEN scanLog
                      ELSE Append(scanLog, [token |-> r.Token.token,
                                            intvalue |-> r.Token.intvalue,
                                            result |-> r.result,
                                            replayed |-> r.replayed,
                                            first |-> r.first])
        /\ scanPc' = IF r.status = "fatal" THEN "exited"
                     ELSE IF r.result THEN "scanning" ELSE "ended"
        /\ exitStatus' = IF r.status = "fatal" THEN 1 ELSE exitStatus
        /\ errorReported' = (errorReported \/ r.status = "fatal")
    /\ UNCHANGED <<CurrentTarget, typeVars, symVars, exprVars, genVars, genCall>>

\* rejectToken(&Token), called by the parser on the token it has just scanned
Reject ==
    /\ exitStatus = Running
    /\ scanPc = "scanning"
    /\ scanLog # <<>>
    /\ scanCall.rejects < MaxRejects
    /\ \E r \in {rejectToken(RejectToken)} :
        /\ RejectToken' = r.RejectToken
        /\ scanCall' = [fn |-> "rejectToken", rejects |-> scanCall.rejects + 1]
        /\ scanPc' = IF r.status = "fatal" THEN "exited" ELSE scanPc
        /\ exitStatus' = IF r.status = "fatal" THEN 1 ELSE exitStatus
        /\ errorReported' = (errorReported \/ r.status = "fatal")
    /\ UNCHANGED <<CurrentTarget, typeVars, symVars, exprVars, genVars, Infile,
                   Putback, Line, Text, Token, scanLog, genCall>>

NextScan == Scan \/ Reject

SpecScan == InitScan /\ [][NextScan]_vars

\* C11: a call of reject made while a rejected token is still pending is
\* fatal: the compiler aborts with a diagnostic and nonzero status, and the
\* pending token is not overwritten.
C11_DoubleRejectIsFatal ==
    [][(scanCall'.rejects # scanCall.rejects /\ RejectToken # "NULL") =>
          /\ exitStatus' # Running /\ exitStatus' # 0
          /\ errorReported'
          /\ RejectToken' = RejectToken
          /\ Token' = Token]_vars

\* A second reject was made with no scan since the first, and the run ended
C11_Witness ==
    /\ scanCall.fn = "rejectToken"
    /\ scanPc = "exited"
    /\ RejectToken # "NULL"
    /\ exitStatus = 1

\* C12: when scan is called until it returns false, no token delivered stands
\* for whitespace, scan returns true for every token before the last and the
\* token is not EOF, and it returns false exactly once, at the end of the
\* input, with the token slot set to EOF.
C12_StreamEndsWithOneEOF ==
    /\ \A i \in DOMAIN scanLog :
          LET e == scanLog[i]
          IN  /\ e.result <=> (i < Len(scanLog) \/ scanPc # "ended")
              /\ e.result =>
                    /\ e.token # "T_EOF"
                    /\ e.replayed \/ e.first \notin {" ", "\t", "\n", "\r", "\f", "EOF"}
              /\ ~e.result =>
                    /\ e.token = "T_EOF"
                    /\ Token.token = "T_EOF"
                    /\ Infile = <<>>
                    /\ Putback = "NUL"
    /\ scanPc = "ended" => scanLog # <<>>
    /\ (exitStatus = Running /\ scanPc = "scanning" /\ RejectToken = "NULL"
        /\ scan(ScannerState, Token, RejectToken).status = "ok")
          => (scan(ScannerState, Token, RejectToken).result
                <=> \/ Putback \notin {" ", "\t", "\n", "\r", "\f", "NUL", "EOF"}
                    \/ \E p \in DOMAIN Infile :
                          Infile[p] \notin {" ", "\t", "\n", "\r", "\f"})

\* An input with white space between its tokens was scanned to its end
C12_Witness ==
    /\ scanPc = "ended"
    /\ Len(scanLog) >= 3
    /\ Line > 1
    /\ \A i \in DOMAIN scanLog : ~scanLog[i].replayed

\* C25: a scan that reads an integer literal delivers the base-10 value of the
\* maximal run of decimal digits it starts at, and pushes the first
\* character after the run back, so that the next scan examines it first.
C25_IntegerTokenIsItsDigitRun ==
    [][(/\ Len(scanLog') = Len(scanLog) + 1
        /\ ~scanLog'[Len(scanLog')].replayed
        /\ Token'.token = "T_INTEGERLITERAL") =>
          LET Digits == <<"0", "1", "2", "3", "4", "5", "6", "7", "8", "9">>
              stream == (IF Putback = "NUL" THEN <<>> ELSE <<Putback>>) \o Infile
              start == CHOOSE p \in DOMAIN stream :
                           /\ isdigit(stream[p])
                           /\ \A q \in 1..(p - 1) :
                                 stream[q] \in {" ", "\t", "\n", "\r", "\f"}
              end == CHOOSE q \in start..Len(stream) :
                         /\ \A m \in start..q : isdigit(stream[m])
                         /\ q < Len(stream) => ~isdigit(stream[q + 1])
              Value(q) ==
                  LET RECURSIVE Upto(_)
                      Upto(m) ==
                          IF m < start THEN 0
                          ELSE Upto(m - 1) * 10
                               + (CHOOSE d \in DOMAIN Digits :
                                      Digits[d] = stream[m]) - 1
                  IN  Upto(q)
          IN  /\ Token'.intvalue = Value(end)
              /\ IF end < Len(stream)
                 THEN /\ Putback' = stream[end + 1]
                      /\ Infile' = SubSeq(stream, end + 2, Len(stream))
                 ELSE /\ Putback' = "EOF"
                      /\ Infile' = <<>>]_vars

\* C28: the scan that follows a rejectToken returns true with the rejected
\* token's kind and value, reads no character and leaves the character put
\* back and the line counter as they are; it empties the pending slot, so a
\* scan with nothing pending reads its token from the input and a
\* rejectToken with nothing pending is accepted.
C28_RejectedTokenIsReplayedOnce ==
    [][/\ (RejectToken # "NULL" /\ RejectToken' = "NULL") =>
             /\ Len(scanLog') = Len(scanLog) + 1
             /\ scanLog'[Len(scanLog')].result
             /\ scanLog'[Len(scanLog')].replayed
             /\ scanLog'[Len(scanLog')].token = scanLog[Len(scanLog)].token
             /\ scanLog'[Len(scanLog')].intvalue = scanLog[Len(scanLog)].intvalue
             /\ Token' = Token
             /\ Infile' = Infile /\ Putback' = Putback /\ Line' = Line
             /\ exitStatus' = Running
       /\ (RejectToken = "NULL" /\ Len(scanLog') = Len(scanLog) + 1) =>
             ~scanLog'[Len(scanLog')].replayed
       /\ (RejectToken = "NULL" /\ scanCall'.rejects # scanCall.rejects) =>
             /\ RejectToken' # "NULL"
             /\ exitStatus' = Running]_vars

\* A token was rejected and replayed, the next one was read from the input
\* and rejected in its turn
C28_Witness ==
    /\ Len(scanLog) >= 3
    /\ scanLog[Len(scanLog) - 1].replayed
    /\ ~scanLog[Len(scanLog)].replayed
    /\ scanLog[Len(scanLog)].result
    /\ scanCall.rejects = 2
    /\ RejectToken # "NULL"
    /\ exitStatus = Running

(***************************************************************************)
(* Specification SpecRegs: the register pool of the selected backend under *)
(* any sequence of reset, allocate and free calls.                         *)
(***************************************************************************)
InitRegs ==
    /\ CurrentTarget \in Targets
    /\ exitStatus = Running
    /\ errorReported = FALSE
    /\ TypesIdle
    /\ SymIdle
    /\ ScanIdle
    /\ genCall = <<>>
    /\ ExprIdle
    /\ genPc = "idle"
    /\ freeRegisters = PoolAtLoad(CurrentTarget)
    /\ labelId = 1
    /\ CurrentFunctionSymbolID = 0
    /\ functionsCompiled = 0
    /\ lastFunction = [compiled |-> FALSE, ops |-> <<>>, statementsRead |-> 0]
    /\ regCall = NoRegCall
    /\ labelsReturned = <<>>

\* The pool as a generator record, for the pool functions
PoolRecord == [free |-> freeRegisters, status |-> "ok", reg |-> NOREG]

\* What a pool function call leaves behind: the pool, the exit of the
\* process when it was fatal, and the record of the call
PoolCall(fn, r, g) ==
    /\ exitStatus = Running
    /\ freeRegisters' = g.free
    /\ regCall' = [fn |-> fn, r |-> r, before |-> freeRegisters, result |-> g.reg]
    /\ exitStatus' = IF g.status = "fatal" THEN 1 ELSE exitStatus
    /\ errorReported' = (errorReported \/ g.status = "fatal")
    /\ UNCHANGED <<CurrentTarget, typeVars, symVars, exprVars, genPc, labelId,
                   CurrentFunctionSymbolID, functionsCompiled, lastFunction,
                   labelsReturned, scanVars, genCall>>

ResetRegisterPool == PoolCall("reset", NOREG, resetRegisters(PoolRecord))

AllocateRegister == PoolCall("allocate", NOREG, allocateRegister(PoolRecord))

FreeRegister == \E r \in DOMAIN freeRegisters : PoolCall("free", r, freeRegister(PoolRecord, r))

NextRegs == ResetRegisterPool \/ AllocateRegister \/ FreeRegister

SpecRegs == InitRegs /\ [][NextRegs]_vars

C17_FreeUsedOrAbort ==
    regCall.fn = "free" =>
        IF regCall.before[regCall.r]
        THEN /\ exitStatus # Running /\ exitStatus # 0
             /\ errorReported
        ELSE /\ freeRegisters = [regCall.before EXCEPT ![regCall.r] = TRUE]
             /\ exitStatus = Running

\* A register in use was freed while another register stayed in use
C17_Witness ==
    /\ regCall.fn = "free"
    /\ ~regCall.before[regCall.r]
    /\ freeRegisters[regCall.r]
    /\ \E r \in DOMAIN freeRegisters : ~freeRegisters[r]
    /\ exitStatus = Running

(***************************************************************************)
(* Specification SpecTypes: one call of the operator-context coercion or   *)
(* of the backend's primitive-size query, on inputs drawn by Init.         *)
(***************************************************************************)
InitTypes ==
    /\ CurrentTarget \in Targets
    /\ exitStatus = Running
    /\ errorReported = FALSE
    /\ typesPc = "ready"
    /\ coerceResult = NULL
    /\ sizeQueryResult = 0
    /\ sizeQueryInTable = TRUE
    /\ SymIdle
    /\ ScanIdle
    /\ genCall = <<>>
    /\ ExprIdle
    /\ GenIdle
    /\ \/ /\ typesCall = "coerce"
          /\ coerceNode \in CoerceNodes
          /\ coerceContext \in ExprTypes
          /\ coerceOp \in CoerceOps
          /\ sizeQueryType = P_NONE
       \/ /\ typesCall = "size"
          /\ coerceNode = NULL
          /\ coerceContext = P_NONE
          /\ coerceOp = "A_NOTHING"
          /\ sizeQueryType \in SizeQueryTypes

\* struct ASTnode *modifyASTType(treeNode, rightType, operation)
Coerce ==
    /\ typesCall = "coerce"
    /\ typesPc = "ready"
    /\ typesPc' = "returned"
    /\ coerceResult' =
           coerceASTTypeForOp(CurrentTarget, coerceNode, coerceContext, coerceOp)
    /\ UNCHANGED <<sharedVars, typesCall, coerceNode, coerceContext, coerceOp,
                   sizeQueryType, sizeQueryResult, sizeQueryInTable>>
    /\ UNCHANGED <<symVars, exprVars, genVars, scanVars, genCall>>

\* int nasmGetPrimitiveTypeSize(type) / int aarch64GetPrimitiveTypeSize(type)
GetPrimitiveTypeSize ==
    /\ typesCall = "size"
    /\ typesPc = "ready"
    /\ IF SizeQueryRejected(sizeQueryType)
       THEN /\ typesPc' = "exited"
            /\ exitStatus' = 1
            /\ errorReported' = TRUE
            /\ UNCHANGED <<sizeQueryResult, sizeQueryInTable>>
       ELSE /\ typesPc' = "returned"
            /\ UNCHANGED <<exitStatus, errorReported>>
            /\ IF SizeQueryInTable(CurrentTarget, sizeQueryType)
               THEN /\ sizeQueryInTable' = TRUE
                    /\ sizeQueryResult' =
                           codegenGetPrimitiveTypeSize(CurrentTarget, sizeQueryType)
               ELSE \* a read past the end of the array: any value
                    /\ sizeQueryInTable' = FALSE
                    /\ sizeQueryResult' \in GarbageInts
    /\ UNCHANGED <<CurrentTarget, typesCall, coerceNode, coerceContext,
                   coerceOp, coerceResult, sizeQueryType>>
    /\ UNCHANGED <<symVars, exprVars, genVars, scanVars, genCall>>

NextTypes == Coerce \/ GetPrimitiveTypeSize

SpecTypes == InitTypes /\ [][NextTypes]_vars

(***************************************************************************)
(* Claims about the type system                                            *)
(***************************************************************************)
Coerced == typesCall = "coerce" /\ typesPc = "returned"

PointeeSize(ptrType) ==
    codegenGetPrimitiveTypeSize(CurrentTarget, pointerToPrimitiveType(ptrType))

\* C2: the coercion called with op in {ADD, SUBTRACT}, an integer node and a
\* pointer context whose pointee size is 1 returns that same node unchanged
\* (no scale node, no incompatibility).
C2_CharPointerPassThrough ==
    (/\ Coerced
     /\ coerceOp \in {"A_ADD", "A_SUBTRACT"}
     /\ isIntegerType(coerceNode.primitiveType)
     /\ isPointerType(coerceContext)
     /\ PointeeSize(coerceContext) = 1)
    => coerceResult = coerceNode

\* C7: on both backends the size query returns 1 for CHAR, 4 for INT, 8 for
\* LONG and 8 for each of the four pointer types, and every such query reads
\* an entry inside the backend's size table.
C7_SizesFixedAndInTable ==
    (typesCall = "size" /\ typesPc = "returned" /\ sizeQueryType \in P_CHAR..P_LONGPTR)
    => /\ sizeQueryInTable
       /\ sizeQueryResult =
            (CASE sizeQueryType = P_CHAR -> 1
               [] sizeQueryType = P_INT -> 4
               [] OTHER -> 8)

\* C9: for an integer node of type T and an integer context C: a strictly
\* larger C yields a widen node of type C over the node, C = T yields the node
\* itself, a strictly smaller C yields nothing.
C9_WidenMonotone ==
    (/\ Coerced
     /\ isIntegerType(coerceNode.primitiveType)
     /\ isIntegerType(coerceContext))
    => LET sizeT == codegenGetPrimitiveTypeSize(CurrentTarget, coerceNode.primitiveType)
           sizeC == codegenGetPrimitiveTypeSize(CurrentTarget, coerceContext)
       IN  /\ sizeC > sizeT =>
                /\ coerceResult.op = "A_WIDENTYPE"
                /\ coerceResult.primitiveType = coerceContext
                /\ coerceResult.left = coerceNode
           /\ coerceContext = coerceNode.primitiveType => coerceResult = coerceNode
           /\ sizeC < sizeT => IsNull(coerceResult)

C9_Witness ==
    /\ Coerced
    /\ coerceNode.primitiveType = P_CHAR
    /\ coerceContext = P_LONG
    /\ coerceOp = "A_MULTIPLY"
    /\ coerceResult.op = "A_WIDENTYPE"

====
